---- MODULE Spec2Model ----
(***************************************************************************)
(* A model of the JSONMatch evaluator of @sanity/json-match:               *)
(*   src/src/match.ts  - match and the generators it drives                *)
(*   src/src/path.ts   - createPathSet, isRecord, isKeyedObject            *)
(*   parse.ts          - the AST node shapes the evaluator walks           *)
(*                                                                         *)
(* A generator is modelled by the finite sequence of entries it yields, in *)
(* the order it yields them; `match` itself is a state machine that pulls  *)
(* one raw entry per step through the visited path set.                    *)
(***************************************************************************)
EXTENDS Integers, Sequences, FiniteSets, TLC

(***************************************************************************)
(* JSON-like values.  A record keeps its fields in Object.entries order.   *)
(* An array or a record is a JavaScript object: entries carry, next to the *)
(* value, the place `ref` it sits at under the context it was reached      *)
(* from, which is what `===` compares for objects.                         *)
(***************************************************************************)
Null == [k |-> "null"]
Bool(b) == [k |-> "bool", b |-> b]
Num(n) == [k |-> "num", n |-> n]
Str(s) == [k |-> "str", s |-> s]
Arr(items) == [k |-> "arr", items |-> items]
Rec(fields) == [k |-> "rec", fields |-> fields]
Fld(name, value) == [name |-> name, value |-> value]
\* a function inherited from Object.prototype (what `value[name]` gives for
\* a name the record does not define itself but `name in value` accepts)
Native(name) == [k |-> "native", name |-> name]

\* the property names every plain object inherits (a sample of them)
ObjectPrototype == {"constructor", "toString"}

isArray(value) == value.k = "arr"

isRecord(value) == value.k = "rec"

OwnNames(value) == {value.fields[i].name : i \in 1..Len(value.fields)}

HasOwn(value, name) == isRecord(value) /\ name \in OwnNames(value)

\* `name in value` for a record
In(name, value) == name \in OwnNames(value) \/ name \in ObjectPrototype

\* `value[name]` for a record with `name in value`
Get(value, name) ==
  IF name \in OwnNames(value)
  THEN value.fields[CHOOSE i \in 1..Len(value.fields) : value.fields[i].name = name].value
  ELSE Native(name)

\* a test `value && ...` that lets everything through
TruthyAlways(value) == TRUE

\* what `value && ...` lets through
Truthy(value) ==
  ~ \/ value.k = "null"
    \/ (value.k = "bool" /\ ~value.b)
    \/ (value.k = "num" /\ value.n = 0)
    \/ (value.k = "str" /\ value.s = "")

\* typeof value === 'object'
TypeofObject(value) == value.k \in {"null", "arr", "rec"}

\* `name in value` throws a TypeError when value is no object
InThrows(value) == value.k \notin {"arr", "rec", "native"}

isKeyedObject(value) ==
  /\ isRecord(value)
  /\ "_key" \in OwnNames(value)
  /\ Get(value, "_key").k = "str"

\* String(n) for the numbers of the model
NumToString(n) ==
  CASE n = 0 -> "0" [] n = 1 -> "1" [] n = 2 -> "2" [] n = 3 -> "3"
    [] n = 4 -> "4" [] n = 5 -> "5" [] n = 6 -> "6" [] n = 7 -> "7"
    [] n = 8 -> "8" [] n = 9 -> "9"
    [] n = -1 -> "-1" [] n = -2 -> "-2" [] n = -3 -> "-3" [] n = -4 -> "-4"
    [] n = -5 -> "-5" [] n = -6 -> "-6" [] n = -7 -> "-7" [] n = -8 -> "-8"
    [] n = -9 -> "-9"

(***************************************************************************)
(* Result paths: a segment is a field name, an array index or {_key}.      *)
(***************************************************************************)
Field(name) == [t |-> "field", name |-> name]
Index(i) == [t |-> "index", i |-> i]
Key(key) == [t |-> "key", _key |-> key]

\* a MatchEntry, with the place of its value under the context
Entry(value, path, ref) == [value |-> value, path |-> path, ref |-> ref]

itemEntry(item, path, index) ==
  [value |-> item,
   path |-> Append(path, IF isKeyedObject(item) THEN Key(Get(item, "_key").s) ELSE Index(index))]

\* the entry of the index-th element (0-based) of the array at `ref`
ItemAt(item, path, index, ref, position) ==
  Entry(itemEntry(item, path, index).value, itemEntry(item, path, index).path,
        Append(ref, position))

\* the entry of a record's field, its fieldIndex-th in Object.entries order
FieldAt(value, path, ref, fieldIndex) ==
  Entry(value.fields[fieldIndex].value,
        Append(path, Field(value.fields[fieldIndex].name)),
        Append(ref, fieldIndex))

FieldIndex(value, name) == CHOOSE i \in 1..Len(value.fields) : value.fields[i].name = name

\* the entry { value: value[name], path: [...path, segment] } of a record
\* with `name in value`; an inherited property sits at no place of its own
PropAt(value, name, segment, path, ref) ==
  Entry(Get(value, name), Append(path, segment),
        Append(ref, IF name \in OwnNames(value) THEN FieldIndex(value, name) ELSE 0))

\* a TypeError thrown while the generator runs, in place of the entries the
\* step would have yielded
TypeError == Entry([k |-> "TypeError"], <<>>, <<>>)
OrThrow(throws, entries) == IF throws THEN <<TypeError>> ELSE entries

(***************************************************************************)
(* The AST (parse.ts).  An absent base is NoBase.                          *)
(***************************************************************************)
NoBase == [type |-> "None"]
PathNode(base, recursive, segment) ==
  [type |-> "PathExpression", base |-> base, recursive |-> recursive, segment |-> segment]
This == [type |-> "This"]
Identifier(name) == [type |-> "Identifier", name |-> name]
Wildcard == [type |-> "Wildcard"]
Subscript(elements) == [type |-> "Subscript", elements |-> elements]
\* a literal keeps its value as the JSON value it denotes
NumberNode(n) == [type |-> "Number", value |-> Num(n)]
StringNode(s) == [type |-> "String", value |-> Str(s)]
\* start/end are optional: hasStart/hasEnd say whether they are present
Slice(hasStart, start, hasEnd, end) ==
  [type |-> "Slice", hasStart |-> hasStart, start |-> start, hasEnd |-> hasEnd, end |-> end]
Comparison(left, operator, right) ==
  [type |-> "Comparison", left |-> left, operator |-> operator, right |-> right]
Existence(base) == [type |-> "Existence", base |-> base]

RECURSIVE Flatten(_)
Flatten(ss) == IF ss = <<>> THEN <<>> ELSE Head(ss) \o Flatten(Tail(ss))

(***************************************************************************)
(* createPathSet (path.ts).  The nested Map is kept flat: a node of the    *)
(* trie is named by the sequence of keys that leads to it from the root;   *)
(* `terminal` holds the nodes whose entry is `true`, `inner` the nodes     *)
(* whose entry is a Map.                                                   *)
(***************************************************************************)
KEY_PREFIX == "key:"
FIELD_PREFIX == "field:"
INDEX_PREFIX == "index:"

createPathSet == [terminal |-> {}, inner |-> {}]

\* getKey without the prefix that tells the three kinds of segment apart
getKeyNoPrefix(segment) ==
  IF segment.t = "key" THEN segment._key
  ELSE IF segment.t = "field" THEN segment.name
  ELSE NumToString(segment.i)

getKey(segment) ==
  IF segment.t = "key" THEN KEY_PREFIX \o segment._key
  ELSE IF segment.t = "field" THEN FIELD_PREFIX \o segment.name
  ELSE INDEX_PREFIX \o NumToString(segment.i)

IsPrefix(p, q) == Len(p) <= Len(q) /\ SubSeq(q, 1, Len(p)) = p

\* map.set(key, true): whatever the key held before is replaced
MapSetTrue(set, node) ==
  [terminal |-> {n \in set.terminal : ~IsPrefix(node, n)} \cup {node},
   inner |-> {n \in set.inner : ~IsPrefix(node, n)}]

\* map.set(key, new Map())
MapSetNew(set, node) == [set EXCEPT !.inner = @ \cup {node}]

RECURSIVE addAt(_, _, _)
addAt(set, map, path) ==
  IF path = <<>> THEN set
  ELSE LET key == getKey(Head(path))
           tail == Tail(path)
           node == Append(map, key)
       IN IF tail = <<>> THEN MapSetTrue(set, node)
          ELSE IF node \in set.terminal THEN set
          ELSE IF node \in set.inner THEN addAt(set, node, tail)
          ELSE addAt(MapSetNew(set, node), node, tail)

RECURSIVE hasAt(_, _, _)
hasAt(set, map, path) ==
  IF path = <<>> THEN FALSE
  ELSE LET key == getKey(Head(path))
           tail == Tail(path)
           node == Append(map, key)
       IN IF node \notin set.terminal /\ node \notin set.inner THEN FALSE
          ELSE IF tail = <<>> THEN node \in set.terminal
          ELSE IF node \in set.terminal THEN FALSE
          ELSE hasAt(set, node, tail)

add(set, path) == addAt(set, <<>>, path)

has(set, path) == hasAt(set, <<>>, path)

(***************************************************************************)
(* The evaluator (match.ts).                                               *)
(***************************************************************************)
\* Array.prototype.at
ArrayAt(items, n) ==
  LET i == IF n < 0 THEN n + Len(items) ELSE n
  IN IF i >= 0 /\ i < Len(items) THEN <<items[i + 1]>> ELSE <<>>

Max(a, b) == IF a > b THEN a ELSE b
Min(a, b) == IF a < b THEN a ELSE b

\* SliceBound with a negative bound taken for 0 instead of counted from the end
SliceBoundFromZero(present, n, len, absent) ==
  IF ~present THEN absent
  ELSE IF n < 0 THEN 0
  ELSE Min(n, len)

\* the relative index Array.prototype.slice resolves a bound to
SliceBound(present, n, len, absent) ==
  IF ~present THEN absent
  ELSE IF n < 0 THEN Max(n + len, 0)
  ELSE Min(n, len)

\* what an operand evaluates to: a value of the document with its place, or
\* an array allocated by evaluateOperand itself
Operand(value, ref) == [fresh |-> FALSE, value |-> value, ref |-> ref]
FreshArray(values) == [fresh |-> TRUE, value |-> Arr(values), ref |-> <<>>]

\* typeof x === 'number'
IsNumber(x) == x.value.k = "num"

\* leftValue == rightValue: a string and a number are compared as numbers
LooseEquals(l, r) ==
  IF l.fresh \/ r.fresh THEN FALSE
  ELSE IF l.value.k = "num" /\ r.value.k = "str" THEN NumToString(l.value.n) = r.value.s
  ELSE IF l.value.k = "str" /\ r.value.k = "num" THEN l.value.s = NumToString(r.value.n)
  ELSE IF l.value.k # r.value.k THEN FALSE
  ELSE IF l.value.k \in {"arr", "rec"} THEN l.ref = r.ref
  ELSE l.value = r.value

\* leftValue === rightValue
StrictEquals(l, r) ==
  IF l.fresh \/ r.fresh THEN FALSE
  ELSE IF l.value.k # r.value.k THEN FALSE
  ELSE IF l.value.k \in {"arr", "rec"} THEN l.ref = r.ref
  ELSE l.value = r.value

RECURSIVE matchPathExpression(_, _, _, _)
RECURSIVE recursiveMatch(_, _, _, _)
RECURSIVE matchPathSegment(_, _, _, _)
RECURSIVE matchSubscript(_, _, _, _)
RECURSIVE matchElement(_, _, _, _)
RECURSIVE matchExistence(_, _, _, _)
RECURSIVE matchComparison(_, _, _, _)
RECURSIVE evaluateComparison(_, _)
RECURSIVE evaluateOperand(_, _)

\* matchPathExpression without the case of the bare '..'
matchPathExpressionDescends(expr, value, path, ref) ==
  IF expr.type = "None" THEN <<Entry(value, path, ref)>>
  ELSE LET candidates == matchPathExpression(expr.base, value, path, ref)
       IN Flatten([c \in 1..Len(candidates) |->
            LET candidate == candidates[c]
            IN IF expr.recursive
               THEN recursiveMatch(expr.segment, candidate.value,
                                   candidate.path, candidate.ref)
               ELSE matchPathSegment(expr.segment, candidate.value,
                                     candidate.path, candidate.ref)])

matchPathExpression(expr, value, path, ref) ==
  IF expr.type = "None" THEN <<Entry(value, path, ref)>>
  ELSE LET candidates == matchPathExpression(expr.base, value, path, ref)
       IN Flatten([c \in 1..Len(candidates) |->
            LET candidate == candidates[c]
            IN IF expr.recursive
               THEN IF expr.segment.type = "Wildcard"
                    THEN <<candidate>>
                    ELSE recursiveMatch(expr.segment, candidate.value,
                                        candidate.path, candidate.ref)
               ELSE matchPathSegment(expr.segment, candidate.value,
                                     candidate.path, candidate.ref)])

\* recursiveMatch that searches the nested values first, then the current level
recursiveMatchChildrenFirst(segment, value, path, ref) ==
  (IF isRecord(value)
   THEN Flatten([f \in 1..Len(value.fields) |->
          LET child == FieldAt(value, path, ref, f)
          IN recursiveMatch(segment, child.value, child.path, child.ref)])
   ELSE IF isArray(value)
   THEN Flatten([i \in 1..Len(value.items) |->
          LET child == ItemAt(value.items[i], path, i - 1, ref, i - 1)
          IN recursiveMatch(segment, child.value, child.path, child.ref)])
   ELSE <<>>)
  \o matchPathSegment(segment, value, path, ref)

recursiveMatch(segment, value, path, ref) ==
  matchPathSegment(segment, value, path, ref)
  \o (IF isRecord(value)
      THEN Flatten([f \in 1..Len(value.fields) |->
             LET child == FieldAt(value, path, ref, f)
             IN recursiveMatch(segment, child.value, child.path, child.ref)])
      ELSE IF isArray(value)
      THEN Flatten([i \in 1..Len(value.items) |->
             LET child == ItemAt(value.items[i], path, i - 1, ref, i - 1)
             IN recursiveMatch(segment, child.value, child.path, child.ref)])
      ELSE <<>>)

matchPathSegment(segment, value, path, ref) ==
  CASE segment.type = "This" -> <<Entry(value, path, ref)>>
    [] segment.type = "Identifier" ->
         IF ~isRecord(value) THEN <<>>
         ELSE OrThrow(InThrows(value),
                IF ~In(segment.name, value) THEN <<>>
                ELSE <<PropAt(value, segment.name, Field(segment.name), path, ref)>>)
    [] segment.type = "Subscript" -> matchSubscript(segment, value, path, ref)
    [] segment.type = "Wildcard" ->
         IF isArray(value)
         THEN [i \in 1..Len(value.items) |-> ItemAt(value.items[i], path, i - 1, ref, i - 1)]
         ELSE IF isRecord(value)
         THEN [f \in 1..Len(value.fields) |-> FieldAt(value, path, ref, f)]
         ELSE <<>>
    [] OTHER -> <<>>

RECURSIVE UntilEmpty(_)
UntilEmpty(ss) ==
  IF ss = <<>> \/ Head(ss) = <<>> THEN <<>> ELSE Head(ss) \o UntilEmpty(Tail(ss))

\* matchSubscript that returns at the first element that yields nothing
matchSubscriptReturnsOnMiss(subscript, value, path, ref) ==
  UntilEmpty([e \in 1..Len(subscript.elements) |->
                matchElement(subscript.elements[e], value, path, ref)])

matchSubscript(subscript, value, path, ref) ==
  Flatten([e \in 1..Len(subscript.elements) |->
             matchElement(subscript.elements[e], value, path, ref)])

\* one turn of the loop of matchSubscript: what one element yields
matchElement(element, value, path, ref) ==
  CASE element.type = "Existence" -> matchExistence(element, value, path, ref)
    [] element.type = "Comparison" -> matchComparison(element, value, path, ref)
    [] element.type = "PathExpression" -> matchPathExpression(element, value, path, ref)
    [] element.type = "Number" ->
         IF isArray(value)
         THEN LET n == element.value.n
                  position == IF n < 0 THEN n + Len(value.items) ELSE n
              IN [i \in 1..Len(ArrayAt(value.items, n)) |->
                    ItemAt(ArrayAt(value.items, n)[i], path, n, ref, position)]
         ELSE IF Truthy(value) /\ TypeofObject(value)
         THEN OrThrow(InThrows(value),
                IF In(NumToString(element.value.n), value)
                THEN <<PropAt(value, NumToString(element.value.n),
                              Index(element.value.n), path, ref)>>
                ELSE <<>>)
         ELSE <<>>
    [] element.type = "String" ->
         IF isRecord(value)
         THEN OrThrow(InThrows(value),
                IF In(element.value.s, value)
                THEN <<PropAt(value, element.value.s, Field(element.value.s), path, ref)>>
                ELSE <<>>)
         ELSE <<>>
    [] element.type = "Slice" ->
         IF ~isArray(value) THEN <<>>
         ELSE LET len == Len(value.items)
                  from == SliceBound(element.hasStart, element.start, len, 0)
                  to == SliceBound(element.hasEnd, element.end, len, len)
                  index == IF element.hasStart THEN element.start ELSE 0
              IN [j \in 1..Max(to - from, 0) |->
                    ItemAt(value.items[from + j], path, index + j - 1, ref, from + j - 1)]
    [] OTHER -> <<>>

matchExistence(existence, value, path, ref) ==
  IF isArray(value)
  THEN Flatten([i \in 1..Len(value.items) |->
         LET item == ItemAt(value.items[i], path, i - 1, ref, i - 1)
         IN IF matchPathExpression(existence.base, item.value, item.path, item.ref) # <<>>
            THEN <<item>> ELSE <<>>])
  ELSE IF matchPathExpression(existence.base, value, path, ref) # <<>>
       THEN <<Entry(value, path, ref)>> ELSE <<>>

\* matchComparison that yields a value that is no array without testing it
matchComparisonNoFilter(comparison, value, path, ref) ==
  IF isArray(value)
  THEN Flatten([i \in 1..Len(value.items) |->
         IF evaluateComparison(comparison, value.items[i])
         THEN <<ItemAt(value.items[i], path, i - 1, ref, i - 1)>> ELSE <<>>])
  ELSE <<Entry(value, path, ref)>>

matchComparison(comparison, value, path, ref) ==
  IF isArray(value)
  THEN Flatten([i \in 1..Len(value.items) |->
         IF evaluateComparison(comparison, value.items[i])
         THEN <<ItemAt(value.items[i], path, i - 1, ref, i - 1)>> ELSE <<>>])
  ELSE IF evaluateComparison(comparison, value)
       THEN <<Entry(value, path, ref)>> ELSE <<>>

\* the switch of evaluateComparison, on the two operand values
compareOperands(operator, leftValue, rightValue) ==
  CASE operator = "==" -> StrictEquals(leftValue, rightValue)
    [] operator = "!=" -> ~StrictEquals(leftValue, rightValue)
    [] operator = ">" ->
         IsNumber(leftValue) /\ IsNumber(rightValue)
         /\ leftValue.value.n > rightValue.value.n
    [] operator = "<" ->
         IsNumber(leftValue) /\ IsNumber(rightValue)
         /\ leftValue.value.n < rightValue.value.n
    [] operator = ">=" ->
         IsNumber(leftValue) /\ IsNumber(rightValue)
         /\ leftValue.value.n >= rightValue.value.n
    [] operator = "<=" ->
         IsNumber(leftValue) /\ IsNumber(rightValue)
         /\ leftValue.value.n <= rightValue.value.n
    [] OTHER -> FALSE

evaluateComparison(comparison, contextValue) ==
  compareOperands(comparison.operator,
                  evaluateOperand(comparison.left, contextValue),
                  evaluateOperand(comparison.right, contextValue))

\* Array.from(matchPathExpression(...)), then one value or a new array
OperandMatches(operand, contextValue) ==
  LET matches == matchPathExpression(operand, contextValue, <<>>, <<>>)
  IN IF Len(matches) = 1
     THEN Operand(matches[1].value, matches[1].ref)
     ELSE FreshArray([m \in 1..Len(matches) |-> matches[m].value])

evaluateOperand(operand, contextValue) ==
  CASE operand.type = "String" -> Operand(operand.value, <<>>)
    [] operand.type = "Number" -> Operand(operand.value, <<>>)
    [] operand.type = "PathExpression" ->
         IF /\ operand.base.type = "None"
            /\ operand.segment.type = "Identifier"
            /\ operand.segment.name \in {"@", "$"}
         THEN Operand(contextValue, <<>>)
         ELSE IF operand.base.type = "None"
         THEN CASE operand.segment.type = "Number" -> Operand(operand.segment.value, <<>>)
                [] operand.segment.type = "String" -> Operand(operand.segment.value, <<>>)
                [] operand.segment.type = "This" -> Operand(contextValue, <<>>)
                [] OTHER -> OperandMatches(operand, contextValue)
         ELSE OperandMatches(operand, contextValue)


\* the literal branches of match: a Number or String expression
matchLiteral(parsedExpr, value) ==
  CASE parsedExpr.type = "Number" ->
         LET n == parsedExpr.value.n
         IN IF isArray(value)
            THEN [i \in 1..Len(ArrayAt(value.items, n)) |->
                    ItemAt(ArrayAt(value.items, n)[i], <<>>, n, <<>>,
                           IF n < 0 THEN n + Len(value.items) ELSE n)]
            ELSE IF Truthy(value) /\ TypeofObject(value)
            THEN OrThrow(InThrows(value),
                   IF In(NumToString(n), value)
                   THEN <<PropAt(value, NumToString(n), Index(n), <<>>, <<>>)>>
                   ELSE <<>>)
            ELSE <<>>
    [] parsedExpr.type = "String" ->
         IF isRecord(value)
         THEN OrThrow(InThrows(value),
                IF In(parsedExpr.value.s, value)
                THEN <<PropAt(value, parsedExpr.value.s, Field(parsedExpr.value.s), <<>>, <<>>)>>
                ELSE <<>>)
         ELSE <<>>
    [] OTHER -> <<>>

(***************************************************************************)
(* parseIndexOrSlice (parse.ts): the subscript elements that start with a  *)
(* Number or a ':'.  `tokens` is the token list, `i` the cursor.           *)
(***************************************************************************)
Tok(type) == [type |-> type]
NumberTok(n) == [type |-> "Number", value |-> n]

\* cursor(): the token under the cursor, EOF past the end
Cursor(tokens, i) == IF i <= Len(tokens) THEN tokens[i] ELSE Tok("EOF")

Parsed(node, next) == [node |-> node, next |-> next]

parseIndexOrSlice(tokens, i) ==
  IF Cursor(tokens, i).type = "Number"
  THEN IF Cursor(tokens, i + 1).type = ":"
       THEN IF Cursor(tokens, i + 2).type = "Number"
            THEN Parsed(Slice(TRUE, tokens[i].value, TRUE, tokens[i + 2].value), i + 3)
            ELSE Parsed(Slice(TRUE, tokens[i].value, FALSE, 0), i + 2)
       ELSE Parsed(NumberNode(tokens[i].value), i + 1)
  ELSE IF Cursor(tokens, i).type = ":"
  THEN IF Cursor(tokens, i + 1).type = "Number"
       THEN Parsed(Slice(FALSE, 0, TRUE, tokens[i + 1].value), i + 2)
       ELSE Parsed(PathNode(NoBase, FALSE, Wildcard), i + 1)
  ELSE Parsed([type |-> "UnexpectedTokenError"], i)

\* tokens that carry a string
IdentifierTok(name) == [type |-> "Identifier", name |-> name]
StringTok(s) == [type |-> "String", text |-> s]
OperatorTok(operator) == [type |-> "Operator", operator |-> operator]

\* throw new UnexpectedTokenError(cursor()) / new SyntaxError(...)
Thrown(i) == Parsed([type |-> "UnexpectedTokenError"], i)
IsThrown(parsed) == parsed.node.type = "UnexpectedTokenError"

ImplicitThis == PathNode(NoBase, FALSE, This)

RECURSIVE parseExpression(_, _)
RECURSIVE parsePath(_, _)
RECURSIVE parseChain(_, _, _)
RECURSIVE parsePathSegment(_, _)
RECURSIVE parseSubscript(_, _)
RECURSIVE parseElements(_, _, _)
RECURSIVE parseSubscriptElement(_, _)

parseExpression(tokens, i) ==
  LET type == Cursor(tokens, i).type
  IN IF type \in {"This", "Identifier", "*", "[", ".", ".."} THEN parsePath(tokens, i)
     ELSE IF type = "String" THEN Parsed(StringNode(tokens[i].text), i + 1)
     ELSE IF type = "Number" THEN Parsed(NumberNode(tokens[i].value), i + 1)
     ELSE Thrown(i)

parsePath(tokens, i) ==
  IF Cursor(tokens, i).type \in {".", ".."}
  THEN LET recursive == Cursor(tokens, i).type = ".."
       IN IF Cursor(tokens, i + 1).type \in {"EOF", "]", ","}
          THEN IF recursive
               THEN parseChain(tokens, i + 1, PathNode(ImplicitThis, recursive, Wildcard))
               ELSE Thrown(i + 1)
          ELSE LET segment == parsePathSegment(tokens, i + 1)
               IN IF IsThrown(segment) THEN segment
                  ELSE parseChain(tokens, segment.next,
                                  PathNode(ImplicitThis, recursive, segment.node))
  ELSE LET segment == parsePathSegment(tokens, i)
       IN IF IsThrown(segment) THEN segment
          ELSE parseChain(tokens, segment.next, PathNode(NoBase, FALSE, segment.node))

\* parseChain that reads '..' as '.'
RECURSIVE parseChainNoDescent(_, _, _)
parseChainNoDescent(tokens, i, result) ==
  IF Cursor(tokens, i).type = "["
  THEN LET subscript == parseSubscript(tokens, i)
       IN IF IsThrown(subscript) THEN subscript
          ELSE parseChainNoDescent(tokens, subscript.next,
                                   PathNode(result, FALSE, subscript.node))
  ELSE IF Cursor(tokens, i).type \in {".", ".."}
  THEN LET segment == parsePathSegment(tokens, i + 1)
       IN IF IsThrown(segment) THEN segment
          ELSE parseChainNoDescent(tokens, segment.next,
                                   PathNode(result, FALSE, segment.node))
  ELSE Parsed(result, i)

\* the while (true) loop of parsePath
parseChain(tokens, i, result) ==
  IF Cursor(tokens, i).type = "["
  THEN LET subscript == parseSubscript(tokens, i)
       IN IF IsThrown(subscript) THEN subscript
          ELSE parseChain(tokens, subscript.next, PathNode(result, FALSE, subscript.node))
  ELSE IF Cursor(tokens, i).type \in {".", ".."}
  THEN LET recursive == Cursor(tokens, i).type = ".."
           segment == parsePathSegment(tokens, i + 1)
       IN IF IsThrown(segment) THEN segment
          ELSE parseChain(tokens, segment.next, PathNode(result, recursive, segment.node))
  ELSE Parsed(result, i)

parsePathSegment(tokens, i) ==
  LET next == Cursor(tokens, i)
  IN IF next.type = "This" THEN Parsed(This, i + 1)
     ELSE IF next.type = "Identifier" THEN Parsed(Identifier(next.name), i + 1)
     ELSE IF next.type = "*" THEN Parsed(Wildcard, i + 1)
     ELSE IF next.type = "[" THEN parseSubscript(tokens, i)
     ELSE Thrown(i)

parseSubscript(tokens, i) ==
  IF Cursor(tokens, i).type # "[" THEN Thrown(i)
  ELSE LET first == parseSubscriptElement(tokens, i + 1)
       IN IF IsThrown(first) THEN first
          ELSE parseElements(tokens, first.next, <<first.node>>)

\* the while (cursor().type === ',') loop of parseSubscript, then consume(']')
parseElements(tokens, i, elements) ==
  IF Cursor(tokens, i).type = ","
  THEN LET element == parseSubscriptElement(tokens, i + 1)
       IN IF IsThrown(element) THEN element
          ELSE parseElements(tokens, element.next, Append(elements, element.node))
  ELSE IF Cursor(tokens, i).type = "]" THEN Parsed(Subscript(elements), i + 1)
  ELSE Thrown(i)

parseSubscriptElement(tokens, i) ==
  IF Cursor(tokens, i).type \in {":", "Number"} THEN parseIndexOrSlice(tokens, i)
  ELSE LET nestedExpression == parseExpression(tokens, i)
       IN IF IsThrown(nestedExpression) THEN nestedExpression
          ELSE IF Cursor(tokens, nestedExpression.next).type = "Operator"
          THEN LET right == parseExpression(tokens, nestedExpression.next + 1)
               IN IF IsThrown(right) THEN right
                  ELSE Parsed(Comparison(nestedExpression.node,
                                         tokens[nestedExpression.next].operator,
                                         right.node), right.next)
          ELSE IF /\ Cursor(tokens, nestedExpression.next).type = "?"
                  /\ nestedExpression.node.type = "PathExpression"
          THEN Parsed(Existence(nestedExpression.node), nestedExpression.next + 1)
          ELSE nestedExpression

\* parse, from the tokens tokenize gives (the closing EOF left out)
parse(tokens) ==
  IF tokens = <<>> THEN Thrown(1)
  ELSE LET ast == parseExpression(tokens, 1)
       IN IF IsThrown(ast) THEN ast
          ELSE IF Cursor(tokens, ast.next).type # "EOF" THEN Thrown(ast.next)
          ELSE ast

(***************************************************************************)
(* The documents and expressions the model runs match on.                  *)
(***************************************************************************)
\* the longest array of the positional cases
MaxLen == 3
\* the longest array of the comparison cases
MaxCmpLen == 2
\* the depth of the documents recursive descent runs on
MaxDepth == 2

SeqsUpTo(pool, n) == UNION {[1..m -> pool] : m \in 0..n}

P(segment) == PathNode(NoBase, FALSE, segment)
Dot(base, segment) == PathNode(base, FALSE, segment)
DotDot(base, segment) == PathNode(base, TRUE, segment)
Id(name) == P(Identifier(name))
Sub(element) == P(Subscript(<<element>>))

recA1 == Rec(<<Fld("a", Num(1))>>)
recA5 == Rec(<<Fld("a", Num(5))>>)
recAs == Rec(<<Fld("a", Str("5"))>>)
recAB == Rec(<<Fld("a", Num(5)), Fld("b", Num(5))>>)
recK1 == Rec(<<Fld("_key", Str("k1")), Fld("a", Num(1))>>)
recK2 == Rec(<<Fld("_key", Str("k2")), Fld("a", Num(5))>>)
recK1b == Rec(<<Fld("_key", Str("k1")), Fld("a", Num(5))>>)
recKnum == Rec(<<Fld("_key", Num(1)), Fld("a", Num(1))>>)
recNested == Rec(<<Fld("a", Rec(<<Fld("b", Num(1))>>)), Fld("b", Num(5))>>)
recDigit == Rec(<<Fld("0", Str("a")), Fld("a", Num(1))>>)
recK0 == Rec(<<Fld("_key", Str("0")), Fld("a", Num(1))>>)

\* positional access: a Number, a Slice or a Wildcard on an array
Bounds == -(MaxLen + 1)..(MaxLen + 1)
PosPool == {Num(1), Str("a"), recK1, recK2, recA1}
PosDocs == {Arr(items) : items \in SeqsUpTo(PosPool, MaxLen)}
SliceSources ==
  {<<NumberTok(s), Tok(":"), NumberTok(e)>> : s \in Bounds, e \in Bounds}
  \cup {<<NumberTok(s), Tok(":")>> : s \in Bounds}
  \cup {<<Tok(":"), NumberTok(e)>> : e \in Bounds}
  \cup {<<Tok(":")>>}
NumberSources == {<<NumberTok(n)>> : n \in Bounds}
WildcardExprs == {P(Wildcard), Sub(P(Wildcard))}
PosExprs ==
  {Sub(parseIndexOrSlice(t, 1).node) : t \in SliceSources \cup NumberSources}
  \cup WildcardExprs

\* a Wildcard on any kind of value
AnyDocs ==
  {Arr(<<recK1, recK1b>>), Arr(<<recK1, recK1>>), Arr(<<recK1, recK2, recK1b>>),
   Arr(<<recKnum, recKnum>>), Arr(<<Num(1), recK0>>), Arr(<<Arr(<<Num(1)>>), Arr(<<Num(1)>>)>>),
   Arr(<<recA1, recA5>>), Arr(<<Num(1), Num(5)>>), Arr(<<>>),
   recAB, recNested, recDigit, Rec(<<>>), Num(1), Str("a"), Bool(TRUE), Null}

\* one comparison on the elements of an array
Operators == {"==", "!=", "<", "<=", ">", ">="}
CmpPool == {Num(1), Num(5), Str("5"), Bool(TRUE), Null, recA1, recA5, recAs, recAB}
CmpDocs == {Arr(items) : items \in SeqsUpTo(CmpPool, MaxCmpLen)}
LeftOperands == {P(This), Id("a"), Id("b"), NumberNode(5), StringNode("5")}
RightOperands == {NumberNode(5), NumberNode(1), StringNode("5"), Id("a"), P(This)}
Comparisons ==
  {Comparison(l, op, r) : l \in LeftOperands, op \in Operators, r \in RightOperands}
CmpExprs == {Sub(c) : c \in Comparisons}

\* a comparison whose path operand produces several values:  [tags[*] op x]
recTags(tags) == Rec(<<Fld("tags", Arr(tags))>>)
TagPool ==
  {recTags(<<Str("red")>>), recTags(<<Str("red"), Str("blue")>>),
   recTags(<<Str("blue"), Str("red")>>), recTags(<<>>),
   recTags(<<Num(5), Num(1)>>), recTags(<<Num(5)>>)}
TagDocs == {Arr(items) : items \in SeqsUpTo(TagPool, MaxCmpLen)}
AllTags == Dot(Id("tags"), Subscript(<<P(Wildcard)>>))
TagLiterals == {StringNode("red"), NumberNode(5), NumberNode(1)}
TagExprs ==
  {Sub(Comparison(AllTags, op, x)) : op \in Operators, x \in TagLiterals}
  \cup {Sub(Comparison(x, op, AllTags)) : op \in Operators, x \in TagLiterals}

\* chained comparisons  [c1][c2]
ChainPool == {Num(1), Num(5), recA1, recAB, recK2, Arr(<<Num(1), Num(5)>>), Arr(<<Num(5)>>)}
ChainDocs == {Arr(items) : items \in SeqsUpTo(ChainPool, MaxCmpLen)}
ChainCmps ==
  {Comparison(P(This), ">", NumberNode(1)), Comparison(P(This), "==", NumberNode(5)),
   Comparison(P(This), "!=", NumberNode(1)), Comparison(Id("a"), ">", NumberNode(1)),
   Comparison(Id("a"), "==", NumberNode(5)), Comparison(Id("b"), "==", NumberNode(5))}
Chain(c1, c2) == Dot(Sub(c1), Subscript(<<c2>>))
ChainExprs == {Chain(c1, c2) : c1 \in ChainCmps, c2 \in ChainCmps}

\* unions  [e1, e2]  and  [e1, e2, e3]
UnionElements ==
  {NumberNode(0), NumberNode(-1), NumberNode(7), StringNode("a"), StringNode("zz"),
   Id("a"), Id("zz"), P(Wildcard), P(This), Dot(Id("a"), Identifier("b")),
   Slice(TRUE, 0, TRUE, 1), Comparison(Id("a"), "==", NumberNode(5)),
   Comparison(Id("a"), ">", NumberNode(0)), Existence(Id("a"))}
TripleElements == {Id("a"), Dot(Id("a"), Identifier("b")), P(This), NumberNode(0)}
UnionExprs ==
  {P(Subscript(<<e1, e2>>)) : e1 \in UnionElements, e2 \in UnionElements}
  \cup {P(Subscript(<<e1, e2, e3>>)) :
          e1 \in TripleElements, e2 \in TripleElements, e3 \in TripleElements}

\* recursive descent
Leaves == {Num(1)}
Grow(deep, shallow) ==
  deep
  \cup {Rec(<<Fld("a", x)>>) : x \in deep}
  \cup {Rec(<<Fld("b", x)>>) : x \in deep}
  \cup {Rec(<<Fld("_key", Str("k1")), Fld("a", x)>>) : x \in deep}
  \cup {Rec(<<Fld("a", x), Fld("b", y)>>) : x \in deep, y \in shallow}
  \cup {Arr(<<x>>) : x \in deep}
  \cup {Arr(<<x, y>>) : x \in deep, y \in shallow}
RECURSIVE Trees(_)
Trees(depth) ==
  IF depth = 0 THEN Leaves ELSE Grow(Trees(depth - 1), Grow(Leaves, Leaves))
DescentExprs ==
  {DotDot(P(This), Identifier("a")), DotDot(P(This), Identifier("b")),
   DotDot(P(Wildcard), Identifier("a")), DotDot(Id("a"), Identifier("a")),
   DotDot(Id("a"), Identifier("b")), DotDot(Id("a"), Wildcard),
   DotDot(P(This), Wildcard)}

\* the expression '..' alone, as parse gives it
BareDescent == parse(<<Tok("..")>>).node

\* a Number subscript on any kind of value
NumberExprs == {Sub(parseIndexOrSlice(t, 1).node) : t \in NumberSources}

\* an Identifier on any kind of value: names the documents define, a name
\* none defines, and names every object inherits
IdentifierNames == {"a", "b", "_key", "0", "zz", "constructor", "toString"}
IdentifierExprs == {Id(name) : name \in IdentifierNames}

\* every kind of subscript element alone, on any kind of value
SingleExprs == {Sub(e) : e \in UnionElements}

\* a literal as the whole expression
LiteralExprs == {NumberNode(0), NumberNode(-1), NumberNode(7), StringNode("a"), StringNode("zz")}

Cases ==
  (PosDocs \X PosExprs)
  \cup (AnyDocs \X (WildcardExprs \cup UnionExprs \cup LiteralExprs \cup {BareDescent}
                   \cup NumberExprs \cup IdentifierExprs \cup SingleExprs))
  \cup (CmpDocs \X CmpExprs)
  \cup (TagDocs \X TagExprs)
  \cup (ChainDocs \X ChainExprs)
  \cup (Trees(MaxDepth) \X DescentExprs)

(***************************************************************************)
(* match: the state of one generator.                                      *)
(***************************************************************************)
VARIABLES
  value,    \* the document
  expr,     \* the parsed expression
  pc,       \* "start": not pulled yet; "loop": in the for loop; "done": returned
  raw,      \* what matchPathExpression yields, in order
  pos,      \* the next entry of raw the loop takes
  visited,  \* the PathSet
  out,      \* the entries yielded so far
  pulled    \* how many times the consumer has called next() (counted where
            \* the generator is run pull by pull)

\* getIndexForKey (path.ts)
VARIABLES
  arrays,       \* the array objects of the heap, by identity: their content now
  INDEX_CACHE,  \* the WeakMap: array object -> lookup, NoLookup when absent
  firstContent, \* history: the content of each array at its first query
  returned      \* the latest call of getIndexForKey: input, key, result

\* parse and stringifyPath (parse.ts, path.ts)
VARIABLES
  query,  \* the expression text, lexeme by lexeme
  ast,    \* what parse(query) returned or threw
  text,   \* what stringifyPath(ast) returned
  again,  \* what parse(text) returned or threw
  ppc     \* "text", "parsed", "thrown", "stringified", "reparsed"

\* one PathSet, used through add and has (path.ts)
VARIABLES
  pathSet,  \* the PathSet
  added     \* history: the paths handed to add, in call order

\* addPathSegment and getParentPath (path.ts)
VARIABLES
  given,         \* the path handed in: a string, a CompatPath array or an AST
  segmentToAdd,  \* the segment handed to addPathSegment
  longer,        \* what addPathSegment(given, segmentToAdd) returned or threw
  parent,        \* what getParentPath returned or threw
  opc            \* "given", "added", "thrown", "parent", "parentOfGiven"

\* match on the expression of each result path (match.ts, path.ts)
VARIABLES
  found  \* per result of match: what match yields for parsePath(its path)

\* the path array match hands down, and the consumer that holds it (match.ts)
VARIABLES
  shared,  \* the content of the array object created by `path: []` in match
  sub,     \* how many results of the current union element have been passed
  held     \* the consumer has received an entry whose path is that object

matchVars == <<value, expr, pc, raw, pos, visited, out, pulled>>
cacheVars == <<arrays, INDEX_CACHE, firstContent, returned>>
parseVars == <<query, ast, text, again, ppc>>
setVars == <<pathSet, added>>
opVars == <<given, segmentToAdd, longer, parent, opc>>
findVars == <<found>>
aliasVars == <<shared, sub, held>>
vars == <<matchVars, cacheVars, parseVars, setVars, opVars, findVars, aliasVars>>

NoParse == Parsed([type |-> "none"], 0)
ParseIdle ==
  /\ query = <<>>
  /\ ast = NoParse
  /\ text = <<>>
  /\ again = NoParse
  /\ ppc = "idle"

SetIdle ==
  /\ pathSet = createPathSet
  /\ added = <<>>

NotCalled == [k |-> "not called"]
OpIdle ==
  /\ given = [form |-> "none"]
  /\ segmentToAdd = [t |-> "none"]
  /\ longer = NotCalled
  /\ parent = NotCalled
  /\ opc = "idle"

FindIdle == found = <<>>

AliasIdle ==
  /\ shared = <<>>
  /\ sub = 0
  /\ held = FALSE

NoLookup == [k |-> "absent"]
NoCall == [k |-> "none"]
CacheIdle ==
  /\ arrays = <<>>
  /\ INDEX_CACHE = <<>>
  /\ firstContent = <<>>
  /\ returned = NoCall

Init ==
  /\ \E c \in Cases : value = c[1] /\ expr = c[2]
  /\ pc = "start"
  /\ raw = <<>>
  /\ pos = 1
  /\ visited = createPathSet
  /\ out = <<>>
  /\ pulled = 0
  /\ CacheIdle
  /\ ParseIdle
  /\ SetIdle
  /\ OpIdle
  /\ FindIdle
  /\ AliasIdle

\* a literal expression: at most one entry, then return
MatchLiteral ==
  /\ pc = "start"
  /\ expr.type # "PathExpression"
  /\ out' = matchLiteral(expr, value)
  /\ pc' = "done"
  /\ UNCHANGED <<value, expr, raw, pos, visited, pulled>>
  /\ UNCHANGED <<cacheVars, parseVars, setVars, opVars, findVars, aliasVars>>

\* the for loop starts to pull matchPathExpression
MatchBegin ==
  /\ pc = "start"
  /\ expr.type = "PathExpression"
  /\ raw' = matchPathExpression(expr, value, <<>>, <<>>)
  /\ pc' = "loop"
  /\ UNCHANGED <<value, expr, pos, visited, out, pulled>>
  /\ UNCHANGED <<cacheVars, parseVars, setVars, opVars, findVars, aliasVars>>

\* if (visited.has(path)) continue
MatchSkip ==
  /\ pc = "loop"
  /\ pos <= Len(raw)
  /\ has(visited, raw[pos].path)
  /\ pos' = pos + 1
  /\ UNCHANGED <<value, expr, pc, raw, visited, out, pulled>>
  /\ UNCHANGED <<cacheVars, parseVars, setVars, opVars, findVars, aliasVars>>

\* visited.add(path); yield entry
MatchYield ==
  /\ pc = "loop"
  /\ pos <= Len(raw)
  /\ ~has(visited, raw[pos].path)
  /\ visited' = add(visited, raw[pos].path)
  /\ out' = Append(out, raw[pos])
  /\ pos' = pos + 1
  /\ UNCHANGED <<value, expr, pc, raw, pulled>>
  /\ UNCHANGED <<cacheVars, parseVars, setVars, opVars, findVars, aliasVars>>

MatchReturn ==
  /\ pc = "loop"
  /\ pos > Len(raw)
  /\ pc' = "done"
  /\ UNCHANGED <<value, expr, raw, pos, visited, out, pulled>>
  /\ UNCHANGED <<cacheVars, parseVars, setVars, opVars, findVars, aliasVars>>

\* the expression of a path (path.ts)
\* IndexTuple = [number | '', number | '']
IndexTuple(hasStart, start, hasEnd, end) ==
  [t |-> "tuple", hasStart |-> hasStart, start |-> start, hasEnd |-> hasEnd, end |-> end]
createSegmentNodeForPathSegment(segment) ==
  CASE segment.t = "tuple" ->
         Subscript(<<IF ~segment.hasStart /\ ~segment.hasEnd
                     THEN P(Wildcard)
                     ELSE Slice(segment.hasStart, segment.start,
                                segment.hasEnd, segment.end)>>)
    [] segment.t = "field" -> Identifier(segment.name)
    [] segment.t = "index" -> Subscript(<<NumberNode(segment.i)>>)
    [] segment.t = "key" ->
         Subscript(<<Comparison(P(Identifier("_key")), "==", StringNode(segment._key))>>)

\* getExprForPath of a non-empty path: one node per segment, left to right
RECURSIVE getExprForPath(_)
getExprForPath(path) ==
  IF path = <<>> THEN NoBase
  ELSE PathNode(getExprForPath(SubSeq(path, 1, Len(path) - 1)), FALSE,
                createSegmentNodeForPathSegment(path[Len(path)]))

\* the results match yields from a raw result: the first entry of each path
RECURSIVE yieldUnvisited(_, _)
yieldUnvisited(entries, seen) ==
  IF entries = <<>> THEN <<>>
  ELSE IF has(seen, Head(entries).path) THEN yieldUnvisited(Tail(entries), seen)
  ELSE <<Head(entries)>> \o yieldUnvisited(Tail(entries), add(seen, Head(entries).path))

\* Array.from(match({value, expression: parsePath(path)})) for a result path
matchPath(path, doc) ==
  yieldUnvisited(matchPathExpression(getExprForPath(path), doc, <<>>, <<>>),
                 createPathSet)

\* the caller evaluates the expression of every non-empty result path
\* against the same document
Readdress ==
  /\ pc = "done"
  /\ found' = [e \in 1..Len(out) |->
                IF out[e].path = <<>> THEN <<>> ELSE matchPath(out[e].path, value)]
  /\ pc' = "readdressed"
  /\ UNCHANGED <<value, expr, raw, pos, visited, out, pulled>>
  /\ UNCHANGED <<cacheVars, parseVars, setVars, opVars, aliasVars>>

Next ==
  MatchLiteral \/ MatchBegin \/ MatchSkip \/ MatchYield \/ MatchReturn \/ Readdress

Spec == Init /\ [][Next]_vars

(***************************************************************************)
(* match pulled result by result on  items[pred] : the for loop of match   *)
(* over the for loop of matchComparison, one step per loop turn.  `pos` is *)
(* the number of elements the predicate has been evaluated on, `raw` what  *)
(* matchComparison has yielded to match.                                   *)
(***************************************************************************)
\* the longest array the generator is pulled on
MaxPullLen == 3

PullPool == {Num(1), Num(5), recK1, recK2, recK1b}
PullDocs == {Rec(<<Fld("items", Arr(items))>>) : items \in SeqsUpTo(PullPool, MaxPullLen)}
PullPredicates ==
  {<<Tok("This"), OperatorTok(">"), NumberTok(1)>>,
   <<IdentifierTok("a"), OperatorTok(">"), NumberTok(1)>>,
   <<IdentifierTok("a"), OperatorTok("=="), NumberTok(5)>>,
   <<IdentifierTok("_key"), OperatorTok("=="), StringTok("k1")>>}
PullExprs ==
  {parse(<<IdentifierTok("items"), Tok("[")>> \o pred \o <<Tok("]")>>).node :
     pred \in PullPredicates}

\* the array the predicate filters, and the entry of its element under pos
PullItems == Get(value, "items").items
PullPredicate == expr.segment.elements[1]
PullEntry ==
  ItemAt(PullItems[pos + 1], <<Field("items")>>, pos, <<FieldIndex(value, "items")>>, pos)

PullInit ==
  /\ \E doc \in PullDocs, e \in PullExprs : value = doc /\ expr = e
  /\ pc = "suspended"
  /\ raw = <<>>
  /\ pos = 0
  /\ visited = createPathSet
  /\ out = <<>>
  /\ pulled = 0
  /\ CacheIdle
  /\ ParseIdle
  /\ SetIdle
  /\ OpIdle
  /\ FindIdle
  /\ AliasIdle

\* the consumer calls next()
Pull ==
  /\ pc = "suspended"
  /\ pc' = "running"
  /\ pulled' = pulled + 1
  /\ UNCHANGED <<value, expr, raw, pos, visited, out>>
  /\ UNCHANGED <<cacheVars, parseVars, setVars, opVars, findVars, aliasVars>>

\* matchComparison: the predicate is false on the element; index++
PullMiss ==
  /\ pc = "running"
  /\ pos < Len(PullItems)
  /\ ~evaluateComparison(PullPredicate, PullItems[pos + 1])
  /\ pos' = pos + 1
  /\ UNCHANGED <<value, expr, pc, raw, visited, out, pulled>>
  /\ UNCHANGED <<cacheVars, parseVars, setVars, opVars, findVars, aliasVars>>

\* matchComparison yields the element, match has seen its path: continue
PullSkip ==
  /\ pc = "running"
  /\ pos < Len(PullItems)
  /\ evaluateComparison(PullPredicate, PullItems[pos + 1])
  /\ has(visited, PullEntry.path)
  /\ raw' = Append(raw, PullEntry)
  /\ pos' = pos + 1
  /\ UNCHANGED <<value, expr, pc, visited, out, pulled>>
  /\ UNCHANGED <<cacheVars, parseVars, setVars, opVars, findVars, aliasVars>>

\* PullYield with a generator that goes on after it has produced a result
PullYieldRunsOn ==
  /\ pc = "running"
  /\ pos < Len(PullItems)
  /\ evaluateComparison(PullPredicate, PullItems[pos + 1])
  /\ ~has(visited, PullEntry.path)
  /\ raw' = Append(raw, PullEntry)
  /\ visited' = add(visited, PullEntry.path)
  /\ out' = Append(out, PullEntry)
  /\ pos' = pos + 1
  /\ UNCHANGED <<value, expr, pc, pulled>>
  /\ UNCHANGED <<cacheVars, parseVars, setVars, opVars, findVars, aliasVars>>

\* matchComparison yields the element, match yields it: the generator is
\* suspended until the next pull
PullYield ==
  /\ pc = "running"
  /\ pos < Len(PullItems)
  /\ evaluateComparison(PullPredicate, PullItems[pos + 1])
  /\ ~has(visited, PullEntry.path)
  /\ raw' = Append(raw, PullEntry)
  /\ visited' = add(visited, PullEntry.path)
  /\ out' = Append(out, PullEntry)
  /\ pos' = pos + 1
  /\ pc' = "suspended"
  /\ UNCHANGED <<value, expr, pulled>>
  /\ UNCHANGED <<cacheVars, parseVars, setVars, opVars, findVars, aliasVars>>

\* the array is exhausted: the generator returns
PullReturn ==
  /\ pc = "running"
  /\ pos = Len(PullItems)
  /\ pc' = "done"
  /\ UNCHANGED <<value, expr, raw, pos, visited, out, pulled>>
  /\ UNCHANGED <<cacheVars, parseVars, setVars, opVars, findVars, aliasVars>>

PullNext == Pull \/ PullMiss \/ PullSkip \/ PullYield \/ PullReturn

PullSpec == PullInit /\ [][PullNext]_vars

(***************************************************************************)
(* getIndexForKey and INDEX_CACHE (path.ts).  Array objects are named by   *)
(* their identity ArrayObjects; a lookup is the plain object the reduce *)
(* builds, a function from its own property names to indices.              *)
(***************************************************************************)
\* the longest keyed array
MaxKeyedLen == 2
\* the array objects of the heap, by identity
ArrayObjects == {1, 2}

Undefined == [k |-> "undefined"]
IndexResult(i) == [k |-> "index", i |-> i]

\* typeof next?._key === 'string'
HasStringKey(next) ==
  /\ isRecord(next)
  /\ "_key" \in OwnNames(next)
  /\ Get(next, "_key").k = "str"

\* input.reduce((acc, next, index) => ..., {}): a later element with the
\* same _key overwrites the index of an earlier one
buildLookup(input) ==
  LET keys == {Get(input[i], "_key").s : i \in {j \in 1..Len(input) : HasStringKey(input[j])}}
  IN [key \in keys |->
        CHOOSE i \in 1..Len(input) :
          /\ HasStringKey(input[i]) /\ Get(input[i], "_key").s = key
          /\ \A j \in 1..Len(input) :
               (HasStringKey(input[j]) /\ Get(input[j], "_key").s = key) => j <= i]

\* lookup[key]: an own property, else what the plain object inherits
readLookup(lookup, key) ==
  IF key \in DOMAIN lookup THEN IndexResult(lookup[key] - 1)
  ELSE IF key \in ObjectPrototype THEN Native(key)
  ELSE Undefined

recKc == Rec(<<Fld("_key", Str("constructor"))>>)
KeyedPool == {recK1, recK2, recK1b, recKnum, recKc, Num(1)}
KeyedContents == SeqsUpTo(KeyedPool, MaxKeyedLen)
QueryKeys == {"k1", "k2", "zz", "constructor", "toString"}
NonArrays == {Null, Str("k1"), recK1}

\* every array object starts with the same content: equal arrays, distinct
\* objects
CacheInit ==
  /\ \E content \in KeyedContents : arrays = [a \in ArrayObjects |-> content]
  /\ INDEX_CACHE = [a \in ArrayObjects |-> NoLookup]
  /\ firstContent = [a \in ArrayObjects |-> <<>>]
  /\ returned = NoCall
  /\ value = Null /\ expr = NoBase /\ pc = "idle" /\ raw = <<>> /\ pos = 0
  /\ visited = createPathSet /\ out = <<>> /\ pulled = 0
  /\ ParseIdle
  /\ SetIdle
  /\ OpIdle
  /\ FindIdle
  /\ AliasIdle

\* getIndexForKey(input, key) with input no array
QueryNonArray ==
  /\ \E input \in NonArrays, key \in QueryKeys :
       returned' = [k |-> "call", array |-> 0, first |-> FALSE, key |-> key,
                    result |-> Undefined]
  /\ UNCHANGED <<arrays, INDEX_CACHE, firstContent>>
  /\ UNCHANGED <<matchVars, parseVars, setVars, opVars, findVars, aliasVars>>

\* getIndexForKey(input, key) with input the array object a
Query ==
  /\ \E a \in ArrayObjects, key \in QueryKeys :
       LET cached == INDEX_CACHE[a]
           lookup == buildLookup(arrays[a])
       IN IF cached # NoLookup
          THEN /\ returned' = [k |-> "call", array |-> a, first |-> FALSE, key |-> key,
                               result |-> readLookup(cached.lookup, key)]
               /\ UNCHANGED <<INDEX_CACHE, firstContent>>
          ELSE /\ INDEX_CACHE' = [INDEX_CACHE EXCEPT ![a] = [k |-> "lookup", lookup |-> lookup]]
               /\ firstContent' = [firstContent EXCEPT ![a] = arrays[a]]
               /\ returned' = [k |-> "call", array |-> a, first |-> TRUE, key |-> key,
                               result |-> readLookup(lookup, key)]
  /\ UNCHANGED arrays
  /\ UNCHANGED <<matchVars, parseVars, setVars, opVars, findVars, aliasVars>>

\* the caller changes the first array object in place: shift, push, reverse
Mutate ==
  /\ \E content \in
        {Tail(arrays[1]) : x \in {1} \cap 1..Len(arrays[1])}
        \cup {Append(arrays[1], item) : item \in {i \in {recK2} : Len(arrays[1]) < MaxKeyedLen}}
        \cup {[i \in 1..Len(arrays[1]) |-> arrays[1][Len(arrays[1]) + 1 - i]]} :
       /\ content # arrays[1]
       /\ arrays' = [arrays EXCEPT ![1] = content]
  /\ UNCHANGED <<INDEX_CACHE, firstContent, returned>>
  /\ UNCHANGED <<matchVars, parseVars, setVars, opVars, findVars, aliasVars>>

CacheNext == QueryNonArray \/ Query \/ Mutate

CacheSpec == CacheInit /\ [][CacheNext]_vars

(***************************************************************************)
(* Vocabulary of the properties.                                           *)
(***************************************************************************)
\* the value at place `ref` of a document
RECURSIVE ValueAt(_, _)
ValueAt(doc, ref) ==
  IF ref = <<>> THEN doc
  ELSE IF isArray(doc) THEN ValueAt(doc.items[Head(ref) + 1], Tail(ref))
  ELSE ValueAt(doc.fields[Head(ref)].value, Tail(ref))

Values(entries) == [i \in 1..Len(entries) |-> entries[i].value]
Paths(entries) == [i \in 1..Len(entries) |-> entries[i].path]
Refs(entries) == [i \in 1..Len(entries) |-> entries[i].ref]

\* the expression is one subscript with one element, applied to the document
IsSingleSub(e) ==
  /\ e.type = "PathExpression"
  /\ e.base.type = "None"
  /\ e.segment.type = "Subscript"
  /\ Len(e.segment.elements) = 1

Element == expr.segment.elements[1]

\* the container the j-th segment of an entry's path steps into
Parent(entry, j) == ValueAt(value, SubSeq(entry.ref, 1, j - 1))

\* C1: the entries one match call yields never contain the same path twice,
\* the empty path included, whatever was yielded in between.
C1_NoPathTwice ==
  \A i, j \in 1..Len(out) : i # j => out[i].path # out[j].path

\* C2: a numeric segment of a yielded path is the non-negative position of the
\* matched element in its parent array, also for a negative Number subscript
\* and for a Slice with a negative start.
C2_IndexIsPosition ==
  (isArray(value) /\ IsSingleSub(expr) /\ Element.type \in {"Number", "Slice"}) =>
    \A e \in 1..Len(out) :
      out[e].path[1].t = "index" =>
        /\ out[e].path[1].i >= 0
        /\ out[e].path[1].i = out[e].ref[1]

\* C3: every element of an array reached by position (Number, Slice,
\* Wildcard, Comparison, recursive descent) is reported by {_key} when it has
\* a string _key, and by its numeric index when it has none.
C3_KeyedAddressing ==
  \A e \in 1..Len(raw) : \A j \in 1..Len(raw[e].path) :
    isArray(Parent(raw[e], j)) =>
      LET item == Parent(raw[e], j).items[raw[e].ref[j] + 1]
      IN raw[e].path[j] =
           IF isRecord(item) /\ HasOwn(item, "_key") /\ Get(item, "_key").k = "str"
           THEN Key(Get(item, "_key").s)
           ELSE Index(raw[e].ref[j])

\* what holds of keyed addressing whatever number a subscript writes: a keyed
\* element is reported by its key, any other element by a number
KeyedOrNumericSegments ==
  \A e \in 1..Len(raw) : \A j \in 1..Len(raw[e].path) :
    isArray(Parent(raw[e], j)) =>
      LET item == Parent(raw[e], j).items[raw[e].ref[j] + 1]
      IN IF isRecord(item) /\ HasOwn(item, "_key") /\ Get(item, "_key").k = "str"
         THEN raw[e].path[j] = Key(Get(item, "_key").s)
         ELSE raw[e].path[j].t = "index"

Resolve(n, len) == IF n < 0 THEN n + len ELSE n
Clamp(n, len) == IF n < 0 THEN 0 ELSE IF n > len THEN len ELSE n
SliceFrom(slice, len) == IF slice.hasStart THEN Clamp(Resolve(slice.start, len), len) ELSE 0
SliceTo(slice, len) == IF slice.hasEnd THEN Clamp(Resolve(slice.end, len), len) ELSE len
SliceOf(items, slice) ==
  LET from == SliceFrom(slice, Len(items))
      to == SliceTo(slice, Len(items))
  IN [j \in 1..(IF to > from THEN to - from ELSE 0) |-> items[from + j]]

\* C4: a slice [s:e] of an array yields the elements from start' up to but
\* excluding end', in ascending order (missing s is 0, missing e is the
\* length, a negative bound has the length added, both clamped to
\* [0, length]); [:] yields what [*] yields.
C4_SliceValues ==
  (pc # "start" /\ isArray(value) /\ IsSingleSub(expr)) =>
    /\ Element.type = "Slice" =>
         /\ Values(raw) = SliceOf(value.items, Element)
         /\ \A e \in 1..Len(raw) :
              raw[e].ref = <<SliceFrom(Element, Len(value.items)) + e - 1>>
    /\ Element = parseIndexOrSlice(<<Tok(":")>>, 1).node =>
         /\ Values(raw) = value.items
         /\ raw = matchPathExpression(Sub(P(Wildcard)), value, <<>>, <<>>)

\* a slice that counts its start from the end and whose end is clamped
C4_Witness ==
  /\ pc = "done"
  /\ isArray(value)
  /\ IsSingleSub(expr)
  /\ Element.type = "Slice"
  /\ Element.hasStart /\ Element.start = -2
  /\ Element.hasEnd /\ Element.end > Len(value.items)
  /\ Len(value.items) = 3
  /\ Len(raw) = 2

\* the i-th element of the array document is among the raw entries
Matched(i) == \E e \in 1..Len(raw) : raw[e].ref = <<i - 1>>

\* the values an operand produces against an item
Produced(operand, item) ==
  IF operand.type = "PathExpression"
  THEN Values(matchPathExpression(operand, item, <<>>, <<>>))
  ELSE <<operand.value>>

IsCmpCase ==
  /\ pc # "start"
  /\ isArray(value)
  /\ IsSingleSub(expr)
  /\ Element.type = "Comparison"

\* C5: a comparison whose left or right operand is a path that produces no
\* value against the element does not match that element, for every operator.
C5_MissingOperandNoMatch ==
  IsCmpCase =>
    \A i \in 1..Len(value.items) :
      (\/ Produced(Element.left, value.items[i]) = <<>>
       \/ Produced(Element.right, value.items[i]) = <<>>) => ~Matched(i)

\* what holds of a missing operand: every operator but != rejects the element
MissingOperandNoMatchButNotEqual ==
  (IsCmpCase /\ Element.operator # "!=") =>
    \A i \in 1..Len(value.items) :
      (\/ Produced(Element.left, value.items[i]) = <<>>
       \/ Produced(Element.right, value.items[i]) = <<>>) => ~Matched(i)

Relation(operator, a, b) ==
  CASE operator = "<" -> a < b
    [] operator = "<=" -> a <= b
    [] operator = ">" -> a > b
    [] operator = ">=" -> a >= b

Primitive(v) == v.k \in {"null", "bool", "num", "str"}

\* C6: <, <=, >, >= match only when both operand values are numbers and the
\* relation holds; == and != do not coerce: operands of different kinds are
\* never equal, and primitives of one kind are equal when they are the same.
C6_ComparisonTypeRules ==
  IsCmpCase =>
    \A i \in 1..Len(value.items) :
      LET l == Produced(Element.left, value.items[i])
          r == Produced(Element.right, value.items[i])
          single == Len(l) = 1 /\ Len(r) = 1
      IN /\ Element.operator \in {"<", "<=", ">", ">="} =>
              (Matched(i) <=>
                 /\ single
                 /\ l[1].k = "num" /\ r[1].k = "num"
                 /\ Relation(Element.operator, l[1].n, r[1].n))
         /\ Element.operator = "==" =>
              /\ Matched(i) => (single /\ l[1].k = r[1].k)
              /\ (single /\ Primitive(l[1]) /\ Primitive(r[1])) =>
                   (Matched(i) <=> l[1] = r[1])
         /\ Element.operator = "!=" =>
              /\ (single /\ l[1].k # r[1].k) => Matched(i)
              /\ (single /\ Primitive(l[1]) /\ Primitive(r[1])) =>
                   (Matched(i) <=> l[1] # r[1])

\* the string "5" is not the number 5, the number 5 is
C6_Witness ==
  /\ pc = "done"
  /\ value = Arr(<<Str("5"), Num(5)>>)
  /\ expr = Sub(Comparison(P(This), "==", NumberNode(5)))
  /\ Paths(out) = <<(<<Index(1)>>)>>

IsUnionCase ==
  /\ pc # "start"
  /\ expr.type = "PathExpression"
  /\ expr.base.type = "None"
  /\ expr.segment.type = "Subscript"
  /\ Len(expr.segment.elements) >= 2

\* C7: a subscript [e1, ..., en] yields, before deduplication, what e1 yields
\* alone, then what e2 yields alone, and so on; an element that yields
\* nothing changes nothing for the others.
C7_UnionIsConcatenation ==
  IsUnionCase =>
    raw = Flatten([e \in 1..Len(expr.segment.elements) |->
                     matchPathExpression(Sub(expr.segment.elements[e]), value, <<>>, <<>>)])

\* a missing field first, then a field the record has
C7_Witness ==
  /\ pc = "done"
  /\ value = recAB
  /\ expr = P(Subscript(<<StringNode("zz"), Id("a")>>))
  /\ Paths(out) = <<(<<Field("a")>>)>>

IsChainCase ==
  /\ pc # "start"
  /\ isArray(value)
  /\ expr.type = "PathExpression"
  /\ expr.base.type = "PathExpression"
  /\ IsSingleSub(expr.base)
  /\ expr.base.segment.elements[1].type = "Comparison"
  /\ ~expr.recursive
  /\ expr.segment.type = "Subscript"
  /\ Len(expr.segment.elements) = 1
  /\ expr.segment.elements[1].type = "Comparison"

ChainFirst == expr.base.segment.elements[1]
ChainSecond == expr.segment.elements[1]

\* the entries of A[c1] whose element also satisfies c2
BothHold ==
  SelectSeq(matchPathExpression(Sub(ChainFirst), value, <<>>, <<>>),
            LAMBDA entry : evaluateComparison(ChainSecond, entry.value))

IsWildcardCase == pc = "done" /\ expr \in WildcardExprs

\* what C9 says of the outcome
WildcardOutcome ==
  IF isArray(value)
  THEN /\ Len(out) = Len(value.items)
       /\ \A i \in 1..Len(out) : out[i].value = value.items[i] /\ out[i].ref = <<i - 1>>
  ELSE IF isRecord(value)
  THEN /\ Len(out) = Len(value.fields)
       /\ \A f \in 1..Len(out) :
            /\ out[f].value = value.fields[f].value
            /\ out[f].path = <<Field(value.fields[f].name)>>
  ELSE out = <<>>

\* C9 as stated: a Wildcard over an array of length n gives n top-level
\* entries, the i-th with value A[i], whatever the elements; over a record
\* one entry per field in field order; over a scalar or null none.
C9_WildcardAll == IsWildcardCase => WildcardOutcome

StringKeys(items) ==
  {i \in 1..Len(items) : isRecord(items[i]) /\ HasOwn(items[i], "_key")
                         /\ Get(items[i], "_key").k = "str"}

DistinctKeys(items) ==
  \A i, j \in StringKeys(items) :
    i # j => Get(items[i], "_key") # Get(items[j], "_key")

\* C9 as amended: the same, for the arrays in which no two elements have the
\* same string _key.
C9_WildcardAllDistinctKeys ==
  (IsWildcardCase /\ (isArray(value) => DistinctKeys(value.items))) => WildcardOutcome

\* keyed and unkeyed elements, every one reported
C9_Witness ==
  /\ pc = "done"
  /\ value = Arr(<<recK1, Num(1), recK2>>)
  /\ expr = Sub(P(Wildcard))
  /\ Paths(out) = <<(<<Key("k1")>>), (<<Index(1)>>), (<<Key("k2")>>)>>

\* C9 on a record: one entry per field
C9_WitnessRecord ==
  /\ pc = "done"
  /\ value = recAB
  /\ expr = P(Wildcard)
  /\ Len(out) = 2

\* every place of a value: the value itself and all that lies below it
RECURSIVE Places(_)
Places(v) ==
  {<<>>}
  \cup (IF isArray(v)
        THEN UNION {{<<i - 1>> \o r : r \in Places(v.items[i])} : i \in 1..Len(v.items)}
        ELSE IF isRecord(v)
        THEN UNION {{<<f>> \o r : r \in Places(v.fields[f].value)} : f \in 1..Len(v.fields)}
        ELSE {})

\* p comes before q in pre-order: a node before what is inside it, and the
\* children of a node in array index order / record field order
Before(p, q) ==
  \/ (Len(p) < Len(q) /\ SubSeq(q, 1, Len(p)) = p)
  \/ \E n \in 1..(IF Len(p) < Len(q) THEN Len(p) ELSE Len(q)) :
       /\ SubSeq(p, 1, n - 1) = SubSeq(q, 1, n - 1)
       /\ p[n] < q[n]

RECURSIVE InOrder(_)
InOrder(places) ==
  IF places = {} THEN <<>>
  ELSE LET first == CHOOSE p \in places : \A q \in places \ {p} : Before(p, q)
       IN <<first>> \o InOrder(places \ {first})

\* the path of the place `ref` under a value found at `path`
RECURSIVE PathTo(_, _, _)
PathTo(v, path, ref) ==
  IF ref = <<>> THEN path
  ELSE IF isArray(v)
  THEN LET item == v.items[Head(ref) + 1]
       IN PathTo(item,
                 Append(path, IF isRecord(item) /\ HasOwn(item, "_key")
                                 /\ Get(item, "_key").k = "str"
                              THEN Key(Get(item, "_key").s)
                              ELSE Index(Head(ref))),
                 Tail(ref))
  ELSE PathTo(v.fields[Head(ref)].value, Append(path, Field(v.fields[Head(ref)].name)),
              Tail(ref))

\* the `name` field of every record at or below a candidate, in pre-order
FieldsBelow(candidate, name) ==
  LET order == InOrder(Places(candidate.value))
  IN Flatten([n \in 1..Len(order) |->
       LET node == ValueAt(candidate.value, order[n])
       IN IF isRecord(node) /\ In(name, node)
          THEN <<[value |-> Get(node, name),
                  path |-> Append(PathTo(candidate.value, candidate.path, order[n]),
                                  Field(name))]>>
          ELSE <<>>])

IsDescentCase ==
  /\ pc # "start"
  /\ expr.type = "PathExpression"
  /\ expr.recursive
  /\ expr.segment.type = "Identifier"

\* C10: base..name yields, for each candidate of base in turn, the `name`
\* field of every record at the candidate or below it, with path = path of
\* the record + name, in pre-order.
C10_DescentPreOrder ==
  IsDescentCase =>
    LET candidates == matchPathExpression(expr.base, value, <<>>, <<>>)
    IN [e \in 1..Len(raw) |-> [value |-> raw[e].value, path |-> raw[e].path]]
       = Flatten([c \in 1..Len(candidates) |->
                    FieldsBelow(candidates[c], expr.segment.name)])

\* a match, a match inside it, then a match in the next field
C10_Witness ==
  /\ pc = "done"
  /\ value = Rec(<<Fld("a", recA1), Fld("b", recA1)>>)
  /\ expr = DotDot(P(This), Identifier("a"))
  /\ Paths(out) = <<(<<Field("a")>>), (<<Field("a"), Field("a")>>),
                    (<<Field("b"), Field("a")>>)>>

(***************************************************************************)
(* C11: the bare '..'.                                                     *)
(***************************************************************************)
Done == pc = "done"

\* C11: the expression '..' alone yields exactly one entry, the document
\* itself with the empty path, whatever the document.
C11_BareDescentIsRoot ==
  (Done /\ expr = BareDescent) => out = <<Entry(value, <<>>, <<>>)>>

\* '..' on a record that has nested records
C11_Witness ==
  /\ Done
  /\ expr = BareDescent
  /\ value = recNested
  /\ Len(out) = 1

(***************************************************************************)
(* C12: a literal as the whole expression.                                 *)
(***************************************************************************)
IsLiteralCase == Done /\ expr.type \in {"Number", "String"}

\* C12: when the whole expression is a Number or a String literal, match
\* yields nothing, whatever the document.
C12_LiteralYieldsNothing == IsLiteralCase => out = <<>>

\* what the literal branches of match do yield: the element or the field the
\* literal names, when the document has it
LiteralYieldsItsEntry ==
  IsLiteralCase =>
    out = IF expr.type = "Number" /\ isArray(value)
          THEN matchPathExpression(Sub(expr), value, <<>>, <<>>)
          ELSE IF isRecord(value) /\ In(IF expr.type = "Number"
                                        THEN NumToString(expr.value.n)
                                        ELSE expr.value.s, value)
          THEN matchPathExpression(Sub(expr), value, <<>>, <<>>)
          ELSE <<>>

(***************************************************************************)
(* C13: a Number as a subscript element.                                   *)
(***************************************************************************)
IsNumberCase == pc # "start" /\ IsSingleSub(expr) /\ Element.type = "Number"

\* the entry [n] gives on an array: the element the resolved index names
NumberOnArray ==
  LET n == Element.value.n
      len == Len(value.items)
      i == IF n < 0 THEN n + len ELSE n
  IN IF 0 <= i /\ i < len
     THEN Len(raw) = 1 /\ raw[1].value = value.items[i + 1] /\ raw[1].ref = <<i>>
     ELSE raw = <<>>

\* C13: a Number subscript element yields at most one entry, and only on an
\* array with the resolved index in [0, length); on a record (also one with a
\* field named like the number) and on a scalar it yields nothing.
C13_NumberOnArraysOnly ==
  IsNumberCase => IF isArray(value) THEN NumberOnArray ELSE raw = <<>>

\* what [n] does on the values that are no arrays: a record that has a
\* property named like the number yields that property
NumberOnArraysAndNumberedFields ==
  IsNumberCase =>
    IF isArray(value) THEN NumberOnArray
    ELSE IF isRecord(value) /\ In(NumToString(Element.value.n), value)
    THEN /\ Len(raw) = 1
         /\ raw[1].value = Get(value, NumToString(Element.value.n))
         /\ raw[1].path = <<Index(Element.value.n)>>
    ELSE raw = <<>>

(***************************************************************************)
(* C14: an Identifier segment.                                             *)
(***************************************************************************)
IsIdentifierCase ==
  /\ pc # "start"
  /\ expr.type = "PathExpression"
  /\ expr.base.type = "None"
  /\ expr.segment.type = "Identifier"

\* the one entry of the field `name` of the document
OwnField(name) ==
  /\ Len(raw) = 1
  /\ raw[1].value = Get(value, name)
  /\ raw[1].path = <<Field(name)>>

\* C14: Identifier(name) yields one entry (the field's value, path = candidate
\* path + name) when the candidate is a record whose own fields include name,
\* and nothing in every other case, for every name.
C14_IdentifierOwnFieldsOnly ==
  IsIdentifierCase =>
    IF isRecord(value) /\ HasOwn(value, expr.segment.name)
    THEN OwnField(expr.segment.name)
    ELSE raw = <<>>

\* the same for the names that no object inherits
IdentifierOwnFieldsButInherited ==
  (IsIdentifierCase /\ expr.segment.name \notin ObjectPrototype) =>
    IF isRecord(value) /\ HasOwn(value, expr.segment.name)
    THEN OwnField(expr.segment.name)
    ELSE raw = <<>>

(***************************************************************************)
(* C15: no document makes match raise.                                     *)
(***************************************************************************)
Raised(entries) == \E e \in 1..Len(entries) : entries[e].value.k = "TypeError"

\* the subscript element is of a kind that does not apply to the document
WrongKind ==
  CASE Element.type = "Number" -> value.k \notin {"arr", "rec"}
    [] Element.type = "Slice" -> ~isArray(value)
    [] Element.type = "String" -> ~isRecord(value)
    [] Element.type = "PathExpression" ->
         /\ Element.base.type = "None"
         /\ \/ Element.segment.type = "Identifier" /\ ~isRecord(value)
            \/ Element.segment.type = "Wildcard" /\ value.k \notin {"arr", "rec"}
    [] OTHER -> FALSE

UpToLatest == IF out = <<>> THEN 0 ELSE out[Len(out)].ref[2] + 1

\* C16: after the consumer has pulled k results of items[pred], the predicate
\* has been evaluated on the elements up to and including the one that
\* produced the k-th result and on no later one; no result is produced and
\* no element examined without a pull.
C16_PullDriven ==
  /\ Len(out) <= pulled
  /\ pc = "suspended" => (Len(out) = pulled /\ pos = UpToLatest)
  /\ pc = "running" => Len(out) = pulled - 1

\* pulled result by result, the generator yields what matchPathExpression
\* yields as a whole
PulledIsMatched ==
  pc = "done" => raw = matchPathExpression(expr, value, <<>>, <<>>)

\* one result pulled, two elements examined, one element not looked at
C16_Witness ==
  /\ pc = "suspended"
  /\ pulled = 1
  /\ Len(out) = 1
  /\ pos = 2
  /\ Len(PullItems) = 3

(***************************************************************************)
(* C17, C18: getIndexForKey.                                               *)
(***************************************************************************)
\* the positions (0-based) at which content holds an element with the
\* string _key `key`
KeyPositions(content, key) ==
  {i - 1 : i \in {j \in 1..Len(content) : HasStringKey(content[j])
                                            /\ Get(content[j], "_key").s = key}}

\* C17: the first query of an array returns an index whose element has the
\* string _key `key` when there is one, and undefined when the input is no
\* array or no element has that string _key, for every key.
C17_FirstQuery ==
  returned # NoCall =>
    IF returned.array = 0 THEN returned.result = Undefined
    ELSE returned.first =>
           IF KeyPositions(firstContent[returned.array], returned.key) # {}
           THEN /\ returned.result.k = "index"
                /\ returned.result.i \in KeyPositions(firstContent[returned.array], returned.key)
           ELSE returned.result = Undefined

\* the same for the keys that are no property name of Object.prototype
FirstQueryButInherited ==
  (returned # NoCall /\ returned.key \notin ObjectPrototype) =>
    IF returned.array = 0 THEN returned.result = Undefined
    ELSE returned.first =>
           IF KeyPositions(firstContent[returned.array], returned.key) # {}
           THEN /\ returned.result.k = "index"
                /\ returned.result.i \in KeyPositions(firstContent[returned.array], returned.key)
           ELSE returned.result = Undefined

\* the answer the content an array had at its first query gives for the
\* latest call
AnswersFromFirstContent ==
  IF KeyPositions(firstContent[returned.array], returned.key) # {}
  THEN /\ returned.result.k = "index"
       /\ returned.result.i \in KeyPositions(firstContent[returned.array], returned.key)
  ELSE returned.result = Undefined

\* the map of every array object is the one built at its first query
NeverRebuilt ==
  \A a \in ArrayObjects :
    INDEX_CACHE[a] # NoLookup => INDEX_CACHE[a].lookup = buildLookup(firstContent[a])

\* C18: the key map of an array object is built once, at its first query;
\* every later query returns the index the key had in the content of that
\* time, whatever the array holds now, and another array object with equal
\* content has a map of its own.
C18_BuiltOnceAndStale ==
  /\ NeverRebuilt
  /\ (returned # NoCall /\ returned.array # 0) => AnswersFromFirstContent

\* the same for the keys that are no property name of Object.prototype
BuiltOnceAndStaleButInherited ==
  /\ NeverRebuilt
  /\ (returned # NoCall /\ returned.array # 0 /\ returned.key \notin ObjectPrototype)
       => AnswersFromFirstContent

\* a later query answers from a content the array no longer has, and the
\* other array object has not been queried
StaleAnswerReached ==
  /\ returned # NoCall
  /\ returned.array = 1
  /\ ~returned.first
  /\ returned.result.k = "index"
  /\ KeyPositions(arrays[1], returned.key) = {}
  /\ INDEX_CACHE[2] = NoLookup

(***************************************************************************)
(* The expression text.  A text is the sequence of its lexemes: the runs   *)
(* of characters the tokenizer takes in one step.  Whitespace is left out. *)
(***************************************************************************)
\* an unquoted run: a bare identifier, or one of the sigils @ and $
Word(t) == [lex |-> "Word", text |-> t]
\* '...' with the content t
SingleQuoted(t) == [lex |-> "SingleQuoted", text |-> t]
\* "..." with the content t
DoubleQuoted(t) == [lex |-> "DoubleQuoted", text |-> t]
Numeral(n) == [lex |-> "Numeral", value |-> n]
Punct(type) == [lex |-> "Punct", type |-> type]
Op(operator) == [lex |-> "Op", operator |-> operator]

\* tokenize, one lexeme: @ and $ are the This token, any other unquoted run
\* and every quoted identifier is an Identifier token
tokenizeLexeme(lexeme) ==
  CASE lexeme.lex = "Word" ->
         IF lexeme.text \in {"@", "$"} THEN Tok("This") ELSE IdentifierTok(lexeme.text)
    [] lexeme.lex = "SingleQuoted" -> IdentifierTok(lexeme.text)
    [] lexeme.lex = "DoubleQuoted" -> StringTok(lexeme.text)
    [] lexeme.lex = "Numeral" -> NumberTok(lexeme.value)
    [] lexeme.lex = "Punct" -> Tok(lexeme.type)
    [] lexeme.lex = "Op" -> OperatorTok(lexeme.operator)

tokenize(source) == [i \in 1..Len(source) |-> tokenizeLexeme(source[i])]

(***************************************************************************)
(* stringifyPath (path.ts).  The names of the model, character by          *)
(* character, and the test /^[a-zA-Z_$][a-zA-Z0-9_$]*$/ on them.           *)
(***************************************************************************)
Spelling(name) ==
  CASE name = "a" -> <<"a">>
    [] name = "age" -> <<"a", "g", "e">>
    [] name = "items" -> <<"i", "t", "e", "m", "s">>
    [] name = "_key" -> <<"_", "k", "e", "y">>
    [] name = "$" -> <<"$">>
    [] name = "@" -> <<"@">>
    [] name = "a-b" -> <<"a", "-", "b">>
    [] name = "0" -> <<"0">>

IdentifierStart == {"a", "b", "e", "g", "i", "k", "m", "s", "t", "y", "_", "$"}
IdentifierPart == IdentifierStart \cup {"0"}

\* /^[a-zA-Z_$][a-zA-Z0-9_$]*$/.test(name)
IsBareIdentifier(name) ==
  LET s == Spelling(name)
  IN /\ Len(s) >= 1
     /\ s[1] \in IdentifierStart
     /\ \A i \in 2..Len(s) : s[i] \in IdentifierPart

\* escapeIdentifier: the name between single quotes (no name of the model
\* holds a character that needs a backslash)
escapeIdentifier(name) == <<SingleQuoted(name)>>

RECURSIVE JoinComma(_)
JoinComma(parts) ==
  IF parts = <<>> THEN <<>>
  ELSE IF Len(parts) = 1 THEN parts[1]
  ELSE parts[1] \o <<Punct(",")>> \o JoinComma(Tail(parts))

RECURSIVE stringifyExpression(_)
RECURSIVE stringifyPath(_)
RECURSIVE stringifySegment(_)
RECURSIVE stringifySubscriptElement(_)

\* 'Path' of path.ts is the node parse.ts calls 'PathExpression'
stringifyExpression(node) ==
  CASE node.type = "String" -> <<DoubleQuoted(node.value.s)>>
    [] node.type = "Number" -> <<Numeral(node.value.n)>>
    [] node.type = "PathExpression" -> stringifyPath(node)

stringifyPath(node) ==
  IF node = NoBase THEN <<>>
  ELSE LET base == stringifyPath(node.base)
           segment == stringifySegment(node.segment)
       IN IF base = <<>> THEN segment
          ELSE IF node.recursive THEN base \o <<Punct("..")>> \o segment
          ELSE IF segment[1].lex = "Punct" /\ segment[1].type = "["
          THEN base \o segment
          ELSE base \o <<Punct(".")>> \o segment

stringifySegment(segment) ==
  CASE segment.type = "This" -> <<Word("@")>>
    [] segment.type = "Wildcard" -> <<Punct("*")>>
    [] segment.type = "Subscript" ->
         <<Punct("[")>>
         \o JoinComma([i \in 1..Len(segment.elements) |->
                         stringifySubscriptElement(segment.elements[i])])
         \o <<Punct("]")>>
    [] segment.type = "Identifier" ->
         IF IsBareIdentifier(segment.name)
         THEN <<Word(segment.name)>>
         ELSE escapeIdentifier(segment.name)

stringifySubscriptElement(node) ==
  CASE node.type = "Slice" ->
         (IF node.hasStart THEN <<Numeral(node.start)>> ELSE <<>>)
         \o <<Punct(":")>>
         \o (IF node.hasEnd THEN <<Numeral(node.end)>> ELSE <<>>)
    [] node.type = "Comparison" ->
         stringifyExpression(node.left) \o <<Op(node.operator)>>
         \o stringifyExpression(node.right)
    [] node.type = "Existence" -> stringifyPath(node.base) \o <<Punct("?")>>
    [] OTHER -> stringifyExpression(node)

(***************************************************************************)
(* The expressions parse and stringifyPath are run on.                     *)
(***************************************************************************)
QueryNames == {"a", "age", "_key", "$", "@", "a-b", "0"}
\* what can stand unquoted in a text: the bare identifiers and the sigils
BareWords == {name \in QueryNames : IsBareIdentifier(name)} \cup {"@"}
QuerySegments ==
  {<<Word(w)>> : w \in BareWords}
  \cup {<<SingleQuoted(name)>> : name \in QueryNames}
  \cup {<<Punct("*")>>}
QueryLiterals == {<<Numeral(5)>>, <<Numeral(-1)>>, <<DoubleQuoted("x")>>}

\* the operands of a comparison: paths, a String literal, a Number literal
PathOperands == {<<Word("age")>>, <<Word("@")>>, <<SingleQuoted("$")>>}
StringOperands == {<<DoubleQuoted("x")>>}
NumberOperands == {<<Numeral(5)>>}
QueryOperands == PathOperands \cup StringOperands \cup NumberOperands
ComparisonOf(left, operator, right) == left \o <<Op(operator)>> \o right
QueryComparisons ==
  {ComparisonOf(left, operator, right) :
     left \in QueryOperands, operator \in Operators, right \in QueryOperands}

QuerySlices ==
  {<<Numeral(1), Punct(":"), Numeral(-1)>>, <<Numeral(1), Punct(":")>>,
   <<Punct(":"), Numeral(2)>>, <<Punct(":")>>}
QueryExistences == {s \o <<Punct("?")>> : s \in QuerySegments}
QueryElements ==
  QueryComparisons \cup QuerySlices \cup QueryExistences \cup QuerySegments
  \cup QueryLiterals
UnionMembers ==
  {<<Word("a")>>, <<SingleQuoted("$")>>, <<Numeral(5)>>, <<Punct(":"), Numeral(2)>>,
   <<Word("age"), Op(">"), Numeral(5)>>, <<Word("a"), Punct("?")>>,
   <<DoubleQuoted("x")>>}

SubscriptOf(element) == <<Punct("[")>> \o element \o <<Punct("]")>>
Dots == {<<Punct(".")>>, <<Punct("..")>>}

\* chains  s1 sep2 s2 ... sepn sn, with or without a leading dot: a link is a
\* separator ("" for none) and the segment after it, as text and as node
MaxChain == 3
Link(sep, lexemes, node) == [sep |-> sep, text |-> lexemes, node |-> node]
ChainSegments ==
  {<<(<<Word("a")>>), Identifier("a")>>, <<(<<Word("@")>>), This>>,
   <<(<<Punct("*")>>), Wildcard>>,
   <<SubscriptOf(<<Numeral(5)>>), Subscript(<<NumberNode(5)>>)>>}
Links == {Link(sep, s[1], s[2]) : sep \in {"", ".", ".."}, s \in ChainSegments}
Chains ==
  {chain \in UNION {[1..n -> Links] : n \in 1..MaxChain} :
     \A l \in 2..Len(chain) : chain[l].sep = "" => chain[l].node.type = "Subscript"}
ChainText(chain) ==
  Flatten([l \in 1..Len(chain) |->
    (IF chain[l].sep = "" THEN <<>> ELSE <<Punct(chain[l].sep)>>) \o chain[l].text])
ChainQueries == {ChainText(chain) : chain \in Chains}

Queries ==
  QuerySegments \cup QueryLiterals \cup Dots
  \cup ChainQueries
  \cup {d \o s : d \in Dots, s \in QuerySegments}
  \cup {s \o d \o t : s \in QuerySegments, d \in Dots, t \in QuerySegments}
  \cup {SubscriptOf(e) : e \in QueryElements}
  \cup {<<Word("items")>> \o SubscriptOf(e) : e \in QueryElements}
  \cup {<<Word("items")>> \o d \o SubscriptOf(e) : d \in Dots, e \in QueryElements}
  \cup {SubscriptOf(e \o <<Punct(",")>> \o f) : e \in UnionMembers, f \in UnionMembers}

(***************************************************************************)
(* parse(e), stringifyPath(parse(e)), parse(stringifyPath(parse(e))).      *)
(***************************************************************************)
ParseInit ==
  /\ query \in Queries
  /\ ast = NoParse
  /\ text = <<>>
  /\ again = NoParse
  /\ ppc = "text"
  /\ value = Null /\ expr = NoBase /\ pc = "idle" /\ raw = <<>> /\ pos = 0
  /\ visited = createPathSet /\ out = <<>> /\ pulled = 0
  /\ CacheIdle
  /\ SetIdle
  /\ OpIdle
  /\ FindIdle
  /\ AliasIdle

\* const ast = parse(expression)
Parse ==
  /\ ppc = "text"
  /\ ast' = parse(tokenize(query))
  /\ ppc' = IF IsThrown(ast') THEN "thrown" ELSE "parsed"
  /\ UNCHANGED <<query, text, again>>
  /\ UNCHANGED <<matchVars, cacheVars, setVars, opVars, findVars, aliasVars>>

\* const stringified = stringifyPath(ast)
Stringify ==
  /\ ppc = "parsed"
  /\ text' = stringifyExpression(ast.node)
  /\ ppc' = "stringified"
  /\ UNCHANGED <<query, ast, again>>
  /\ UNCHANGED <<matchVars, cacheVars, setVars, opVars, findVars, aliasVars>>

\* const reparsed = parse(stringified)
Reparse ==
  /\ ppc = "stringified"
  /\ again' = parse(tokenize(text))
  /\ ppc' = "reparsed"
  /\ UNCHANGED <<query, ast, text>>
  /\ UNCHANGED <<matchVars, cacheVars, setVars, opVars, findVars, aliasVars>>

ParseNext == Parse \/ Stringify \/ Reparse

ParseSpec == ParseInit /\ [][ParseNext]_vars

(***************************************************************************)
(* C20: a subscript element `left op right` parses to a Comparison node    *)
(* that holds the two operands, whatever the left operand is: a Path, a    *)
(* String literal or a Number literal.                                     *)
(***************************************************************************)
OperandNode(operand) == parse(tokenize(operand)).node

ComparisonParsed(left, operator, right) ==
  /\ ~IsThrown(ast)
  /\ ast.node = P(Subscript(<<Comparison(OperandNode(left), operator, OperandNode(right))>>))

ComparisonsParse(lefts) ==
  \A left \in lefts, operator \in Operators, right \in QueryOperands :
    (/\ query = SubscriptOf(ComparisonOf(left, operator, right))
     /\ ppc # "text")
    => ComparisonParsed(left, operator, right)

\* C20: every `[left op right]`, the left operand a Path, a String literal
\* or a Number literal, parses to the Comparison node of its two operands
C20_ComparisonParses == ComparisonsParse(QueryOperands)

\* what the parser does: a Path or a String literal on the left parses to the
\* Comparison node, a Number literal on the left makes parse throw
ComparisonParsesOffNumberLeft ==
  /\ ComparisonsParse(PathOperands \cup StringOperands)
  /\ \A left \in NumberOperands, operator \in Operators, right \in QueryOperands :
       (/\ query = SubscriptOf(ComparisonOf(left, operator, right))
        /\ ppc # "text")
       => IsThrown(ast)

(***************************************************************************)
(* C19: parse(stringifyPath(parse(e))) is structurally equal to parse(e),  *)
(* for every expression e that parses.                                     *)
(***************************************************************************)
RECURSIVE MentionsName(_, _)
\* the node holds an Identifier segment with that name
MentionsName(node, name) ==
  CASE node.type = "PathExpression" ->
         MentionsName(node.base, name) \/ MentionsName(node.segment, name)
    [] node.type = "Identifier" -> node.name = name
    [] node.type = "Subscript" ->
         \E i \in 1..Len(node.elements) : MentionsName(node.elements[i], name)
    [] node.type = "Comparison" ->
         MentionsName(node.left, name) \/ MentionsName(node.right, name)
    [] node.type = "Existence" -> MentionsName(node.base, name)
    [] OTHER -> FALSE

Reparsed == ppc = "reparsed"
SameAst == ~IsThrown(again) /\ again.node = ast.node

\* C19: whenever an expression has been parsed, stringified and parsed
\* again, the second AST is structurally equal to the first
C19_RoundTrip == Reparsed => SameAst

\* what the code does: the round trip holds for every expression without an
\* Identifier segment named $ (written '$'), and fails for every one with it
RoundTripButDollar ==
  Reparsed => (SameAst <=> ~MentionsName(ast.node, "$"))

\* the round trip changes the text and keeps the AST: `.a` comes back as
\* `@.a`, `a.[0]` as `a[0]`, `[:]` as `[*]`, a bare-looking quoted name
\* without its quotes
RoundTripReached == Reparsed /\ SameAst /\ text # query

(***************************************************************************)
(* One PathSet under any sequence of add calls (createPathSet, path.ts).   *)
(***************************************************************************)
\* the longest path handed to add
MaxPathLen == 3
\* the number of add calls on one PathSet
MaxAdds == 3

\* the three kinds of segment, spelled alike: the field "0", the index 0,
\* the keyed reference {_key: "0"}
SetSegments == {Field("0"), Index(0), Key("0")}
SetPaths == SeqsUpTo(SetSegments, MaxPathLen)

PathSetInit ==
  /\ pathSet = createPathSet
  /\ added = <<>>
  /\ value = Null /\ expr = NoBase /\ pc = "idle" /\ raw = <<>> /\ pos = 0
  /\ visited = createPathSet /\ out = <<>> /\ pulled = 0
  /\ CacheIdle
  /\ ParseIdle
  /\ OpIdle
  /\ FindIdle
  /\ AliasIdle

\* set.add(path)
Add ==
  /\ Len(added) < MaxAdds
  /\ \E path \in SetPaths :
       /\ pathSet' = add(pathSet, path)
       /\ added' = Append(added, path)
  /\ UNCHANGED <<matchVars, cacheVars, parseVars, opVars, findVars, aliasVars>>

PathSetNext == Add

PathSetSpec == PathSetInit /\ [][PathSetNext]_vars

(***************************************************************************)
(* C22, C23, C24: what has answers after a sequence of add calls.          *)
(***************************************************************************)
LatestAdded == added[Len(added)]

RECURSIVE AddAll(_)
\* the PathSet after the calls add(paths[1]), ..., add(paths[n])
AddAll(paths) ==
  IF paths = <<>> THEN createPathSet
  ELSE add(AddAll(SubSeq(paths, 1, Len(paths) - 1)), paths[Len(paths)])

\* the PathSet as it was before the latest add
BeforeLatest == AddAll(SubSeq(added, 1, Len(added) - 1))

IsStrictPrefix(p, q) == Len(p) < Len(q) /\ IsPrefix(p, q)

\* C22: right after add(p), has(p) is true, for every non-empty path p and
\* whatever was added before
C22_HasAfterAdd ==
  (added # <<>> /\ LatestAdded # <<>>) => has(pathSet, LatestAdded)

\* what the code does: right after add(p), has(p) is true exactly when p is
\* not empty and no strict prefix of p was in the set
HasAfterAddButExtension ==
  added # <<>> =>
    (has(pathSet, LatestAdded)
       <=> /\ LatestAdded # <<>>
           /\ ~\E q \in SetPaths : IsStrictPrefix(q, LatestAdded) /\ has(BeforeLatest, q))

\* C23: has(p) is true only if a path identical to p (same length, same
\* segments, each of the same kind) was added before; never for the empty path
C23_HasOnlyAdded ==
  \A p \in SetPaths :
    has(pathSet, p) => (p # <<>> /\ \E i \in 1..Len(added) : added[i] = p)

\* the field "0" is in the set, the index 0, the key "0", the empty path, an
\* extension and a path with another kind of segment are not
C23_Witness ==
  /\ added = <<<<Field("0"), Index(0)>>, <<Field("0"), Index(0)>>, <<Key("0")>>>>
  /\ has(pathSet, <<Field("0"), Index(0)>>) /\ has(pathSet, <<Key("0")>>)
  /\ ~has(pathSet, <<Field("0")>>) /\ ~has(pathSet, <<Index(0), Index(0)>>)
  /\ ~has(pathSet, <<Field("0"), Key("0")>>) /\ ~has(pathSet, <<Index(0)>>)
  /\ ~has(pathSet, <<Key("0"), Index(0)>>) /\ ~has(pathSet, <<>>)

\* C24: no add turns has(p) from true to false, for any path p; in
\* particular not the add of a strict prefix of p
C24_AddKeepsPaths ==
  added # <<>> =>
    \A p \in SetPaths : has(BeforeLatest, p) => has(pathSet, p)

\* what the code does: add(q) with q not empty removes exactly the paths q is
\* a strict prefix of, and nothing else
AddRemovesExtensions ==
  added # <<>> =>
    \A p \in SetPaths :
      (has(BeforeLatest, p) /\ ~has(pathSet, p)) <=>
      (has(BeforeLatest, p) /\ LatestAdded # <<>> /\ IsStrictPrefix(LatestAdded, p))

(***************************************************************************)
(* C25: an operand that produces several values.                           *)
(***************************************************************************)
\* the comparison as it is on the first value each operand produces
FirstValuesCompare(operator, l, r) ==
  /\ l # <<>>
  /\ r # <<>>
  /\ CASE operator = "==" -> l[1] = r[1]
       [] operator = "!=" -> l[1] # r[1]
       [] OTHER -> /\ l[1].k = "num" /\ r[1].k = "num"
                   /\ Relation(operator, l[1].n, r[1].n)

SeveralValues(i) ==
  LET l == Produced(Element.left, value.items[i])
      r == Produced(Element.right, value.items[i])
  IN l # <<>> /\ r # <<>> /\ (Len(l) >= 2 \/ Len(r) >= 2)

\* C25: when an operand produces several values against an element, the
\* element matches exactly when the comparison holds of the first value of
\* each operand
C25_FirstValueOnly ==
  IsCmpCase =>
    \A i \in 1..Len(value.items) :
      SeveralValues(i) =>
        (Matched(i) <=> FirstValuesCompare(Element.operator,
                                           Produced(Element.left, value.items[i]),
                                           Produced(Element.right, value.items[i])))

\* what the code does: several values are compared as one new array, which
\* is no number, equal to nothing and different from everything
SeveralValuesAreOneArray ==
  IsCmpCase =>
    \A i \in 1..Len(value.items) :
      SeveralValues(i) => (Matched(i) <=> Element.operator = "!=")

\* an item with the tags red, blue is tested with  tags[*] == "red"
SeveralValuesReached ==
  /\ pc = "done"
  /\ IsCmpCase
  /\ Element = Comparison(AllTags, "==", StringNode("red"))
  /\ value = Arr(<<recTags(<<Str("red"), Str("blue")>>), recTags(<<Str("red")>>)>>)
  /\ Paths(out) = <<(<<Index(1)>>)>>

(***************************************************************************)
(* C27: recursive descent with a wildcard,  base..*                        *)
(***************************************************************************)
\* the places of the direct children of a value, in natural order
ChildPlaces(v) ==
  IF isArray(v) THEN [i \in 1..Len(v.items) |-> <<i - 1>>]
  ELSE IF isRecord(v) THEN [f \in 1..Len(v.fields) |-> <<f>>]
  ELSE <<>>

\* the places strictly below a value: its direct children, then, child by
\* child, the places below each child
RECURSIVE PlacesBelow(_)
PlacesBelow(v) ==
  LET children == ChildPlaces(v)
  IN children
     \o Flatten([c \in 1..Len(children) |->
          LET below == PlacesBelow(ValueAt(v, children[c]))
          IN [n \in 1..Len(below) |-> children[c] \o below[n]]])

AllBelow(candidate) ==
  LET below == PlacesBelow(candidate.value)
  IN [n \in 1..Len(below) |->
       [value |-> ValueAt(candidate.value, below[n]),
        path |-> PathTo(candidate.value, candidate.path, below[n])]]

IsWildcardDescentCase ==
  /\ pc # "start"
  /\ expr.type = "PathExpression"
  /\ expr.recursive
  /\ expr.segment.type = "Wildcard"
  /\ expr.base.type # "None"

\* C27: base..* yields, for each candidate of base in turn, the direct
\* children of the candidate and then, child by child, everything below each
\* child: every node strictly below the candidate is in the raw result.
C27_WildcardDescent ==
  IsWildcardDescentCase =>
    LET candidates == matchPathExpression(expr.base, value, <<>>, <<>>)
    IN [e \in 1..Len(raw) |-> [value |-> raw[e].value, path |-> raw[e].path]]
       = Flatten([c \in 1..Len(candidates) |-> AllBelow(candidates[c])])

\* what the code does: a recursive wildcard yields the candidates of its base
\* themselves and nothing below them
WildcardDescentYieldsCandidates ==
  IsWildcardDescentCase =>
    raw = matchPathExpression(expr.base, value, <<>>, <<>>)

\* a..* on a record whose field a holds a record
WildcardDescentReached ==
  /\ pc = "done"
  /\ value = Rec(<<Fld("a", recA1)>>)
  /\ expr = DotDot(Id("a"), Wildcard)
  /\ Paths(out) = <<(<<Field("a")>>)>>

(***************************************************************************)
(* C26: the comparison  _key == "k"  on an array.                          *)
(***************************************************************************)
KeyPredicate == Comparison(Id("_key"), "==", StringNode("k1"))
IsKeyCase == PullPredicate = KeyPredicate

\* getIndexForKey(array, "k1")
IndexOfKey == readLookup(buildLookup(PullItems), "k1")

\* the element at an index, addressed by its keyed reference
KeyedEntryAt(index) ==
  Entry(PullItems[index + 1], <<Field("items"), Key("k1")>>,
        <<FieldIndex(value, "items"), index>>)

\* C26: for  _key == "k"  the evaluator yields exactly the element at index
\* getIndexForKey(array, k), addressed by its keyed reference, and nothing
\* when the key is absent, and it evaluates the comparison against no other
\* element of the array.
C26_KeyLookup ==
  IsKeyCase =>
    /\ pc = "done" =>
         out = (IF IndexOfKey = Undefined THEN <<>>
                ELSE <<KeyedEntryAt(IndexOfKey.i)>>)
    /\ \A n \in 1..pos : IndexOfKey = IndexResult(n - 1)

\* what the code does: the comparison is evaluated on every element, in
\* array order, and the result is the first element with the key
KeyComparisonScans ==
  IsKeyCase =>
    /\ pc = "done" =>
         /\ pos = Len(PullItems)
         /\ out = (IF IndexOfKey = Undefined THEN <<>>
                   ELSE LET first == CHOOSE n \in 1..Len(PullItems) :
                              /\ HasStringKey(PullItems[n])
                              /\ Get(PullItems[n], "_key").s = "k1"
                              /\ \A m \in 1..(n - 1) :
                                   ~(HasStringKey(PullItems[m])
                                     /\ Get(PullItems[m], "_key").s = "k1")
                        IN <<KeyedEntryAt(first - 1)>>)
    /\ pc = "suspended" => pos = IF out = <<>> THEN 0 ELSE out[Len(out)].ref[2] + 1

\* two elements with the key k1: the first is yielded, the index cache
\* names the second
KeyScanReached ==
  /\ pc = "done"
  /\ IsKeyCase
  /\ PullItems = <<recK2, recK1, recK1b>>
  /\ IndexOfKey = IndexResult(2)
  /\ pos = 3
  /\ out = <<KeyedEntryAt(1)>>

(***************************************************************************)
(* C28: the shape of the tree parse builds for a chain of segments.        *)
(***************************************************************************)
\* the node reached from `node` by following base `steps` times
RECURSIVE BaseAt(_, _)
BaseAt(node, steps) == IF steps = 0 THEN node ELSE BaseAt(node.base, steps - 1)

ChainShape(chain, node) ==
  LET n == Len(chain)
  IN /\ \A l \in 1..n :
          /\ BaseAt(node, n - l).type = "PathExpression"
          /\ BaseAt(node, n - l).segment = chain[l].node
          /\ BaseAt(node, n - l).recursive = (chain[l].sep = "..")
     /\ BaseAt(node, n) = IF chain[1].sep = "" THEN NoBase
                          ELSE PathNode(NoBase, FALSE, This)

\* the chain a text is, read off lexeme by lexeme: a dot or none, then one
\* segment (a subscript takes three lexemes)
RECURSIVE Unchain(_)
Unchain(lexemes) ==
  IF lexemes = <<>> THEN <<>>
  ELSE LET dotted == lexemes[1] \in {Punct("."), Punct("..")}
           rest == IF dotted THEN Tail(lexemes) ELSE lexemes
           width == IF rest[1] = Punct("[") THEN 3 ELSE 1
           segment == CHOOSE s \in ChainSegments : s[1] = SubSeq(rest, 1, width)
       IN <<Link(IF dotted THEN lexemes[1].type ELSE "", segment[1], segment[2])>>
          \o Unchain(SubSeq(rest, width + 1, Len(rest)))

\* C28: for a chain s1 sep2 s2 ... sepn sn, parse returns a Path node whose
\* segment is sn and whose base chain visits s(n-1), ..., s1 and ends at a
\* node without base; the node of si is recursive exactly when sepi is '..';
\* a leading '.' or '..' adds one innermost base node with segment This.
C28_ChainShape ==
  (ppc # "text" /\ query \in ChainQueries) =>
    /\ Unchain(query) \in Chains
    /\ ChainText(Unchain(query)) = query
    /\ ~IsThrown(ast)
    /\ ChainShape(Unchain(query), ast.node)

\* ..a[5]..* has been parsed
C28_Witness ==
  /\ ppc = "parsed"
  /\ query = <<Punct(".."), Word("a"), Punct("["), Numeral(5), Punct("]"),
               Punct(".."), Punct("*")>>
  /\ ast.node = DotDot(Dot(DotDot(P(This), Identifier("a")),
                           Subscript(<<NumberNode(5)>>)), Wildcard)

(***************************************************************************)
(* addPathSegment, getParentPath, parsePath and getExprForPath (path.ts).  *)
(* A path is handed in as a string, as a CompatPath array or as an AST.    *)
(***************************************************************************)
GivenString(source) == [form |-> "string", source |-> source]
GivenArray(path) == [form |-> "array", path |-> path]
GivenNode(node) == [form |-> "node", node |-> node]

\* a PathNode handed to addPathSegment as the segment
NodeSegment(node) == [t |-> "node", node |-> node]

\* what a call returned
StringResult(lexemes) == [k |-> "string", text |-> lexemes]
Threw == [k |-> "thrown"]

\* parsePath of path.ts: the AST of a path given in any of the three forms,
\* as parse returns it (a node, or thrown)
parsePathInput(path) ==
  CASE path.form = "array" ->
         IF path.path = <<>> THEN Thrown(0) ELSE Parsed(getExprForPath(path.path), 0)
    [] path.form = "string" -> parse(tokenize(path.source))
    [] path.form = "node" -> Parsed(path.node, 0)

RECURSIVE attachBaseToRoot(_, _)
attachBaseToRoot(node, newBase) ==
  IF node.base = NoBase THEN [node EXCEPT !.base = newBase]
  ELSE [node EXCEPT !.base = attachBaseToRoot(node.base, newBase)]

\* addPathSegment on an ExprNode (what parse or getExprForPath gave)
addPathSegmentToNode(parsed, segment) ==
  IF IsThrown(parsed) THEN Threw
  ELSE IF parsed.node.type \in {"Number", "String"} THEN Threw
  ELSE LET node == IF segment.t = "node" THEN segment.node
                   ELSE P(createSegmentNodeForPathSegment(segment))
       IN StringResult(stringifyExpression(attachBaseToRoot(node, parsed.node)))

\* a string is parsed, an array goes through getExprForPath
addPathSegment(path, segment) == addPathSegmentToNode(parsePathInput(path), segment)

\* getParentPath on an ExprNode
getParentPathOfNode(parsed) ==
  IF IsThrown(parsed) THEN Threw
  ELSE IF parsed.node.type # "PathExpression" THEN Undefined
  ELSE IF parsed.node.base = NoBase THEN Undefined
  ELSE StringResult(stringifyPath(parsed.node.base))

getParentPath(path) == getParentPathOfNode(parsePathInput(path))

\* the longest CompatPath array handed in
MaxGivenLen == 2
GivenSegments ==
  {Field("a"), Field("$"), Field("a-b"), Index(0), Index(-1), Key("a"),
   IndexTuple(TRUE, 1, FALSE, 0)}
SegmentsToAdd ==
  GivenSegments
  \cup {Field("0"), IndexTuple(FALSE, 0, FALSE, 0), IndexTuple(TRUE, 1, TRUE, 5),
        IndexTuple(FALSE, 0, TRUE, 2),
        NodeSegment(Id("a")), NodeSegment(Dot(Id("a"), Subscript(<<NumberNode(0)>>)))}
GivenSources ==
  {ChainText(chain) : chain \in {c \in Chains : Len(c) <= 2}}
  \cup {<<SingleQuoted(name)>> : name \in QueryNames}
  \cup {<<Word("items")>> \o SubscriptOf(e) : e \in UnionMembers}
  \cup QueryLiterals
GivenNodes ==
  {parse(tokenize(source)).node : source \in GivenSources}
  \cup {Sub(Comparison(NumberNode(5), "==", Id("age")))}
Givens ==
  {GivenString(source) : source \in GivenSources}
  \cup {GivenArray(path) : path \in SeqsUpTo(GivenSegments, MaxGivenLen)}
  \cup {GivenNode(node) : node \in GivenNodes}

PathOpInit ==
  /\ given \in Givens
  /\ segmentToAdd \in SegmentsToAdd
  /\ longer = NotCalled
  /\ parent = NotCalled
  /\ opc = "given"
  /\ value = Null /\ expr = NoBase /\ pc = "idle" /\ raw = <<>> /\ pos = 0
  /\ visited = createPathSet /\ out = <<>> /\ pulled = 0
  /\ CacheIdle
  /\ ParseIdle
  /\ SetIdle
  /\ FindIdle
  /\ AliasIdle

\* const longer = addPathSegment(given, segmentToAdd)
AddPathSegment ==
  /\ opc = "given"
  /\ longer' = addPathSegment(given, segmentToAdd)
  /\ opc' = IF longer' = Threw THEN "thrown" ELSE "added"
  /\ UNCHANGED <<given, segmentToAdd, parent>>
  /\ UNCHANGED <<matchVars, cacheVars, parseVars, setVars, findVars, aliasVars>>

\* getParentPath(longer)
GetParentPath ==
  /\ opc = "added"
  /\ parent' = getParentPath(GivenString(longer.text))
  /\ opc' = "parent"
  /\ UNCHANGED <<given, segmentToAdd, longer>>
  /\ UNCHANGED <<matchVars, cacheVars, parseVars, setVars, findVars, aliasVars>>

\* getParentPath(given)
GetParentPathOfGiven ==
  /\ opc = "given"
  /\ parent' = getParentPath(given)
  /\ opc' = "parentOfGiven"
  /\ UNCHANGED <<given, segmentToAdd, longer>>
  /\ UNCHANGED <<matchVars, cacheVars, parseVars, setVars, findVars, aliasVars>>

PathOpNext == AddPathSegment \/ GetParentPath \/ GetParentPathOfGiven

PathOpSpec == PathOpInit /\ [][PathOpNext]_vars

(***************************************************************************)
(* C21: the parent of a path with one more segment is the path.            *)
(***************************************************************************)
\* the path handed in is a Path expression
GivenIsPath ==
  /\ ~IsThrown(parsePathInput(given))
  /\ parsePathInput(given).node.type = "PathExpression"
GivenAst == parsePathInput(given).node
IsSingleSegment(segment) == segment.t \in {"field", "index", "key", "tuple"}

\* C21: for every Path expression p, in any of its three forms, and every
\* single segment s, getParentPath(addPathSegment(p, s)) is
\* stringifyPath(parsePath(p)); and getParentPath of a path of one segment
\* is undefined.
C21_ParentOfLonger ==
  /\ (opc = "parent" /\ GivenIsPath /\ IsSingleSegment(segmentToAdd))
       => parent = StringResult(stringifyExpression(GivenAst))
  /\ (opc = "parentOfGiven" /\ GivenIsPath /\ GivenAst.base = NoBase)
       => parent = Undefined

\* a comparison whose left operand is a Number literal
RECURSIVE HasNumberLeft(_)
HasNumberLeft(node) ==
  CASE node.type = "PathExpression" -> HasNumberLeft(node.base) \/ HasNumberLeft(node.segment)
    [] node.type = "Subscript" ->
         \E i \in 1..Len(node.elements) : HasNumberLeft(node.elements[i])
    [] node.type = "Comparison" -> node.left.type = "Number"
    [] OTHER -> FALSE

\* what the code does: the parent of the longer path is the path handed in
\* unless the path has an Identifier segment named $, which comes back as @,
\* or a comparison that starts with a number, which does not parse
ParentButDollar ==
  (opc = "parent" /\ GivenIsPath /\ IsSingleSegment(segmentToAdd))
    => (parent = StringResult(stringifyExpression(GivenAst))
          <=> (~MentionsName(GivenAst, "$") /\ ~HasNumberLeft(GivenAst)))

\* ['$'] with the segment 0 becomes $[0], whose parent is @
ParentOfDollarReached ==
  /\ opc = "parent"
  /\ given = GivenArray(<<Field("$")>>)
  /\ segmentToAdd = Index(0)
  /\ longer = StringResult(<<Word("$"), Punct("["), Numeral(0), Punct("]")>>)
  /\ parent = StringResult(<<Word("@")>>)

(***************************************************************************)
(* C30: a result path addresses its value.                                 *)
(***************************************************************************)
Readdressed(e) ==
  /\ Len(found[e]) = 1
  /\ found[e][1].value = out[e].value
  /\ found[e][1].path = out[e].path

\* C30: for every entry with a non-empty path that match yields, match of
\* the expression parsePath builds from the path, on the same document,
\* yields exactly one entry, with the same value and the same path.
C30_PathsReaddress ==
  (pc = "readdressed" /\ ~Raised(out)) =>
    \A e \in 1..Len(out) : out[e].path # <<>> => Readdressed(e)


HasNegativeIndex(path) == \E n \in 1..Len(path) : path[n].t = "index" /\ path[n].i < 0
HasKey(path) == \E n \in 1..Len(path) : path[n].t = "key"

\* what the code does: a path of field names and non-negative indices
\* addresses its value
PlainPathsReaddress ==
  (pc = "readdressed" /\ ~Raised(out)) =>
    \A e \in 1..Len(out) :
      (out[e].path # <<>> /\ ~HasKey(out[e].path) /\ ~HasNegativeIndex(out[e].path))
        => Readdressed(e)

\* [1] on two elements with the same _key: the second element is yielded
\* under the key, and the key addresses the first
SameKeyReaddressed ==
  /\ pc = "readdressed"
  /\ value = Arr(<<recK1, recK1b>>)
  /\ expr = Sub(NumberNode(1))
  /\ out = <<Entry(recK1b, <<Key("k1")>>, <<1>>)>>
  /\ found = <<(<<Entry(recK1, <<Key("k1")>>, <<0>>)>>)>>

(***************************************************************************)
(* match on a union  [e1, e2, ...]  pulled result by result by a consumer  *)
(* that may write to a path it was handed.  match passes one array object  *)
(* (`path: []`) down to matchSubscript, whose loop reads it again for      *)
(* every result: `[...path, name]`, itemEntry(item, path, index).          *)
(***************************************************************************)
\* the longest union
MaxUnion == 3
\* how many segments the consumer pushes
MaxPushes == 2

ConsumeDocs ==
  {Null, recA1, recAB, Arr(<<Num(1), Num(5)>>), Arr(<<recA1, recK1>>)}
ConsumeElements ==
  {P(This), Id("a"), P(Wildcard), DotDot(P(This), Wildcard),
   Existence(Id("a")), Comparison(P(This), "!=", NumberNode(5)),
   NumberNode(0), Slice(FALSE, 0, FALSE, 0)}
ConsumeExprs ==
  {P(Subscript(elements)) :
     elements \in UNION {[1..n -> ConsumeElements] : n \in 1..MaxUnion}}

\* a path expression that yields `{value, path}` with the path object it
\* was given: only This segments and the shortcut of the recursive wildcard
RECURSIVE PathAliases(_)
PathAliases(node) ==
  \/ node = NoBase
  \/ /\ PathAliases(node.base)
     /\ IF node.recursive THEN node.segment.type = "Wildcard"
        ELSE node.segment.type = "This"

\* the result of the element is `{value, path}`, not a new array
ElementAliases(element, doc) ==
  CASE element.type = "PathExpression" -> PathAliases(element)
    [] element.type \in {"Existence", "Comparison"} -> ~isArray(doc)
    [] OTHER -> FALSE

ConsumeElement == expr.segment.elements[pos]
\* what the element under pos yields with the path object as it is now
ConsumeEntries == matchElement(ConsumeElement, value, shared, <<>>)

ConsumeInit ==
  /\ \E doc \in ConsumeDocs, e \in ConsumeExprs : value = doc /\ expr = e
  /\ pc = "suspended"
  /\ raw = <<>>
  /\ pos = 1
  /\ visited = createPathSet
  /\ out = <<>>
  /\ pulled = 0
  /\ shared = <<>>
  /\ sub = 0
  /\ held = FALSE
  /\ CacheIdle
  /\ ParseIdle
  /\ SetIdle
  /\ OpIdle
  /\ FindIdle

\* matchSubscript: the element has no further result, `continue`
ConsumeContinue ==
  /\ pc = "running"
  /\ pos <= Len(expr.segment.elements)
  /\ sub >= Len(ConsumeEntries)
  /\ pos' = pos + 1
  /\ sub' = 0
  /\ UNCHANGED <<value, expr, pc, raw, visited, out, pulled, shared, held>>
  /\ UNCHANGED <<cacheVars, parseVars, setVars, opVars, findVars>>

\* match: if (visited.has(path)) continue
ConsumeSkip ==
  /\ pc = "running"
  /\ pos <= Len(expr.segment.elements)
  /\ sub < Len(ConsumeEntries)
  /\ has(visited, ConsumeEntries[sub + 1].path)
  /\ sub' = sub + 1
  /\ UNCHANGED <<value, expr, pc, raw, pos, visited, out, pulled, shared, held>>
  /\ UNCHANGED <<cacheVars, parseVars, setVars, opVars, findVars>>

\* match: visited.add(path); yield entry
ConsumeYield ==
  /\ pc = "running"
  /\ pos <= Len(expr.segment.elements)
  /\ sub < Len(ConsumeEntries)
  /\ ~has(visited, ConsumeEntries[sub + 1].path)
  /\ visited' = add(visited, ConsumeEntries[sub + 1].path)
  /\ out' = Append(out, ConsumeEntries[sub + 1])
  /\ sub' = sub + 1
  /\ held' = (held \/ ElementAliases(ConsumeElement, value))
  /\ pc' = "suspended"
  /\ UNCHANGED <<value, expr, raw, pos, pulled, shared>>
  /\ UNCHANGED <<cacheVars, parseVars, setVars, opVars, findVars>>

\* the loop of matchSubscript is over: the generator returns
ConsumeReturn ==
  /\ pc = "running"
  /\ pos > Len(expr.segment.elements)
  /\ pc' = "done"
  /\ UNCHANGED <<value, expr, raw, pos, visited, out, pulled, shared, sub, held>>
  /\ UNCHANGED <<cacheVars, parseVars, setVars, opVars, findVars>>

\* the consumer: entry.path.push('x') on a path it was handed
Touch ==
  /\ pc = "suspended"
  /\ held
  /\ Len(shared) < MaxPushes
  /\ shared' = Append(shared, Field("x"))
  /\ UNCHANGED <<value, expr, pc, raw, pos, visited, out, pulled, sub, held>>
  /\ UNCHANGED <<cacheVars, parseVars, setVars, opVars, findVars>>

ConsumeNext ==
  Pull \/ ConsumeContinue \/ ConsumeSkip \/ ConsumeYield \/ ConsumeReturn \/ Touch

ConsumeSpec == ConsumeInit /\ [][ConsumeNext]_vars

(***************************************************************************)
(* C29: a yielded path is not shared with the evaluator.                   *)
(***************************************************************************)
\* what the expression yields when nobody writes to a yielded path
Untouched == yieldUnvisited(matchPathExpression(expr, value, <<>>, <<>>), createPathSet)

IsPrefixOfUntouched ==
  /\ Len(out) <= Len(Untouched)
  /\ \A e \in 1..Len(out) :
       /\ out[e].value = Untouched[e].value
       /\ out[e].path = Untouched[e].path

\* C29: whatever the consumer does to the paths it was handed, every entry
\* yielded is the entry the same match yields when no path is touched, and
\* at the end all of them have been yielded.
C29_PathNotShared ==
  /\ IsPrefixOfUntouched
  /\ pc = "done" => Len(out) = Len(Untouched)

\* what the code does: the results are those of the untouched match as long
\* as the consumer has not written to the path object
UntouchedAgrees ==
  shared = <<>> => (/\ IsPrefixOfUntouched
                    /\ pc = "done" => Len(out) = Len(Untouched))

\* [@, a] on {a: 1}: the consumer pushes x onto the path of the first
\* entry, and the second entry comes with the path x.a
TouchedPathReached ==
  /\ pc = "done"
  /\ value = recA1
  /\ expr = P(Subscript(<<P(This), Id("a")>>))
  /\ shared = <<Field("x")>>
  /\ Paths(out) = <<(<<>>), (<<Field("x"), Field("a")>>)>>

====
